---------------------------- MODULE Spec2Model ----------------------------
(***************************************************************************)
(* A model of the daily-feed delivery pipeline:                            *)
(*   - retry.WithBackoff            (internal/retry/retry.go)              *)
(*   - Runner.Run                   (internal/runner/runner.go)            *)
(*   - AnthropicSummarizer          (summarizer: Summarize, parseResponse) *)
(*   - batchEmbeds, Publish         (internal/publisher/discord.go)        *)
(*   - ArxivFetcher                 (internal/fetcher/arxiv.go)            *)
(* Each component has its own specification (SpecRetry, SpecClassify,      *)
(* SpecDelay, SpecRun, SpecParse, SpecBatch, SpecDiscord, SpecFetch); the  *)
(* variables of the other components stay at their initial values.         *)
(* time.Duration is a 64-bit two's-complement integer; the model's         *)
(* durations are DurationBits-bit two's-complement integers.               *)
(***************************************************************************)
EXTENDS Integers, Sequences, FiniteSets, TLC

VARIABLES
    \* ---- retry.WithBackoff ----
    cfg,        \* retry.Config: [MaxRetries, BaseDelay]
    attempt,    \* loop variable `attempt`
    rpc,        \* position of WithBackoff: "call" | "wait" | "done"
    opLog,      \* the value returned by each invocation of `operation`, in order
    waits,      \* the delay of each backoff wait entered, in order
    result,     \* what WithBackoff returned (or how it ended)
    cancelled,  \* ctx.Done() is closed
    \* ---- Runner.Run and the AnthropicSummarizer it calls ----
    nTopics,        \* len(r.GetTopics())
    nPubs,          \* len(r.publishers)
    language,       \* AnthropicSummarizer.language
    runPc,          \* position of Run: "Idle" | "Fetching" | "Summarizing" | "Publishing" | "Done" | "Failed"
    fetchLog,       \* the fetch calls made: [method, outcome]
    papers,         \* the fetched papers
    sumCalls,       \* number of Summarize invocations
    sumOutcome,     \* "none" | "ok" | "err": what Summarize returned
    sPc,            \* position inside Summarize: "idle" | "call" | "wait"
    sAttempt,       \* retryWithBackoff's loop variable `attempt`
    apiCalls,       \* number of callAPI invocations
    apiErr,         \* the error the latest callAPI returned
    digest,         \* the Digest returned by Summarize
    pubIdx,         \* index (1-based) of the publisher whose Publish is running
    pubEvents,      \* the calls and returns of Publish, in order
    publishErrors,  \* the publishers whose Publish returned an error, in order
    runResult,      \* what Run returned
    \* ---- parseResponse ----
    pBody,          \* the JSON document of the model's response
    pFence,         \* how the response wraps the document: [tag, spaced]
    pPapers,        \* the item list
    pTopN,          \* AnthropicSummarizer.topN
    pResult,        \* what parseResponse returned
    \* ---- batchEmbeds ----
    embeds,         \* the embeds to batch
    batchPc,        \* "build" while the caller builds embeds, "done" once batchEmbeds returned
    batches,        \* what batchEmbeds returned
    \* ---- DiscordPublisher.Publish ----
    retryConfig,    \* DiscordPublisher.retryConfig
    pubBatches,     \* Publish's local `batches`
    batchIdx,       \* Publish's loop variable `i` (0-based)
    sendAttempt,    \* WithBackoff's loop variable `attempt` for the current batch
    pubPc,          \* position of Publish: "idle" | "call" | "wait" | "delay" | "done"
    posts,          \* the webhook POSTs made, in order: [batch, status, err]
    batchDelays,    \* the inter-batch delays entered, in order: [after, at, ms]
    publishResult,  \* what Publish returned
    \* ---- ArxivFetcher.Fetch / FetchMultiple ----
    fetchEntry,     \* the method called: "Fetch" | "FetchMultiple"
    topics,         \* the topics argument (for Fetch, the one topic)
    maxResults,     \* the maxResults argument
    fetchPc,        \* "idle" | "start" | "call" | "wait" | "done"
    fetchPath,      \* which internal fetch is retried: "none" | "single" | "multi"
    fetchAttempt,   \* retryWithBackoff's loop variable `attempt`
    requests,       \* the HTTP requests issued, in order
    lastResponse,   \* the response to the latest request
    fetchedPapers,  \* the papers returned
    fetchErr,       \* the error returned
    \* ---- isRetryableError ----
    classifyErr,    \* the err argument
    classifyPc,     \* "idle" | "call" | "done"
    classified,     \* the value returned
    \* ---- the backoff delay of WithBackoff ----
    delayBase,      \* config.BaseDelay
    delayAttempt,   \* attempt
    delayPc,        \* "idle" | "compute" | "done" | "panic"
    delay,          \* the local `delay`
    \* ---- the suspension points of one run ----
    spPubs,         \* the kinds of r.publishers, in order
    spPc,           \* where the run is blocked ("start" and "returned" if nowhere)
    spAttempt,      \* the loop variable `attempt` of the retry loop the run is in
    spPub,          \* index (1-based) of the publisher whose Publish is running
    spBatchesLeft,  \* batches of the Discord publisher still to send after this one
    spTally,        \* [calls (requests issued by the retry loop the run is in),
                    \* published (Publish calls per publisher), failed (publishers
                    \* that returned an error), result (what Run returned)]
    \* ---- truncate ----
    trS,            \* the argument s, a sequence of bytes
    trMax,          \* the argument max
    trPc,           \* "idle" | "call" | "done"
    trOut,          \* the string returned
    \* ---- the link selection of fetchInternal ----
    links,          \* entry.Links: [Href, Type, Rel] each
    linkPc,         \* "idle" | "call" | "done"
    paperURL        \* the local paperURL after the selection (0: the empty string)

retryVars == <<cfg, attempt, rpc, opLog, waits, result>>

runVars == <<nTopics, nPubs, language, runPc, fetchLog, papers, sumCalls, sumOutcome,
             sPc, sAttempt, apiCalls, apiErr, digest, pubIdx, pubEvents, publishErrors, runResult>>

parseVars == <<pBody, pFence, pPapers, pTopN, pResult>>

batchVars == <<embeds, batchPc, batches>>

discordVars == <<retryConfig, pubBatches, batchIdx, sendAttempt, pubPc, posts, batchDelays,
                 publishResult>>

fetchVars == <<fetchEntry, topics, maxResults, fetchPc, fetchPath, fetchAttempt, requests,
               lastResponse, fetchedPapers, fetchErr>>

classifyVars == <<classifyErr, classifyPc, classified>>

delayVars == <<delayBase, delayAttempt, delayPc, delay>>

suspendVars == <<spPubs, spPc, spAttempt, spPub, spBatchesLeft, spTally>>

truncateVars == <<trS, trMax, trPc, trOut>>

linksVars == <<links, linkPc, paperURL>>

vars == <<retryVars, cancelled, runVars, parseVars, batchVars, discordVars, fetchVars,
          classifyVars, delayVars, suspendVars,
        truncateVars,
        linksVars>>

\* What each component leaves alone.
nonRetryVars == <<runVars, parseVars, batchVars, discordVars, fetchVars, classifyVars, delayVars, suspendVars,
        truncateVars,
        linksVars>>
nonRunVars == <<retryVars, parseVars, batchVars, discordVars, fetchVars, classifyVars, delayVars, suspendVars,
        truncateVars,
        linksVars>>
nonParseVars == <<retryVars, cancelled, runVars, batchVars, discordVars, fetchVars, classifyVars, delayVars, suspendVars,
        truncateVars,
        linksVars>>
nonBatchVars == <<retryVars, cancelled, runVars, parseVars, discordVars, fetchVars, classifyVars, delayVars, suspendVars,
        truncateVars,
        linksVars>>
nonDiscordVars == <<retryVars, runVars, parseVars, batchVars, fetchVars, classifyVars, delayVars, suspendVars,
        truncateVars,
        linksVars>>
nonFetchVars == <<retryVars, runVars, parseVars, batchVars, discordVars, classifyVars, delayVars, suspendVars,
        truncateVars,
        linksVars>>
nonClassifyVars == <<retryVars, cancelled, runVars, parseVars, batchVars, discordVars,
                     fetchVars, delayVars, suspendVars,
        truncateVars,
        linksVars>>
nonDelayVars == <<retryVars, cancelled, runVars, parseVars, batchVars, discordVars,
                  fetchVars, classifyVars, suspendVars,
        truncateVars,
        linksVars>>
nonSuspendVars == <<retryVars, runVars, parseVars, batchVars, discordVars, fetchVars,
                    classifyVars, delayVars,
        truncateVars,
        linksVars>>
nonTruncateVars == <<retryVars, cancelled, runVars, parseVars, batchVars,
        discordVars, fetchVars, classifyVars, delayVars, suspendVars,
        linksVars>>
nonLinksVars == <<retryVars, cancelled, runVars, parseVars, batchVars,
        discordVars, fetchVars, classifyVars, delayVars, suspendVars, truncateVars>>

(***************************************************************************)
(* Bounds of the model.                                                    *)
(***************************************************************************)
MaxRetriesBound == 3
MaxBaseDelay == 2
MaxTopics == 2
MaxPubs == 3
MaxPapers == 2
MaxEntries == 3
MaxEmbeds == 12
MaxHeavy == 4
MaxBatches == 3
MaxBound == 2
MaxFeed == 4
MaxStamp == 2
MaxText == 8
MaxCap == 7
MaxMarks == 2
MaxLinks == 3
DurationBits == 6

(***************************************************************************)
(* Errors.  isRetryableError only looks at which of a few substrings the   *)
(* lower-cased error text contains, so an error is modelled by the set of  *)
(* those substrings present in its text.  "status 429" contains "status 4".*)
(***************************************************************************)
NilErr == [nil |-> TRUE]

ErrUnknown == [text |-> {}]
ErrTimeout == [text |-> {"timeout"}]
ErrStatus500 == [text |-> {"status 5"}]
ErrStatus429 == [text |-> {"status 429", "status 4"}]
ErrStatus400 == [text |-> {"status 4"}]
ErrStatus300 == [text |-> {"status 3"}]
ErrStatusOther == [text |-> {"status"}]

\* fmt.Errorf("unexpected status %d", resp.StatusCode): the markers of the
\* classifier that the text contains.
ErrUnexpectedStatus(code) ==
    IF code \in 500 .. 599 THEN ErrStatus500
    ELSE IF code = 429 THEN ErrStatus429
    ELSE IF code \in 400 .. 499 THEN ErrStatus400
    ELSE IF code \in 300 .. 399 THEN ErrStatus300
    ELSE ErrStatusOther

OpErrors == {ErrUnknown, ErrStatus500, ErrStatus429, ErrStatus400}

Contains(err, s) == s \in err.text

\* A faulty variant of isRetryableError that takes 429 for a client error.
isRetryableError429AsClientError(err) ==
    IF err = NilErr THEN FALSE
    ELSE IF \/ Contains(err, "timeout")
            \/ Contains(err, "connection refused")
            \/ Contains(err, "connection reset")
            \/ Contains(err, "temporary failure")
            \/ Contains(err, "network")
         THEN TRUE
    ELSE IF Contains(err, "status 4") THEN FALSE
    ELSE TRUE

isRetryableError(err) ==
    IF err = NilErr THEN FALSE
    ELSE IF \/ Contains(err, "timeout")
            \/ Contains(err, "connection refused")
            \/ Contains(err, "connection reset")
            \/ Contains(err, "temporary failure")
            \/ Contains(err, "network")
         THEN TRUE
    ELSE IF Contains(err, "status 5") \/ Contains(err, "status 429") THEN TRUE
    ELSE IF Contains(err, "status 4") THEN FALSE
    ELSE TRUE

(***************************************************************************)
(* retry.WithBackoff                                                       *)
(***************************************************************************)
RECURSIVE Pow2(_)
Pow2(n) == IF n <= 0 THEN 1 ELSE 2 * Pow2(n - 1)

\* The values WithBackoff can end with.
NoResult == [kind |-> "none"]
RetNil == [kind |-> "nil"]
RetNonRetryable(err) == [kind |-> "non-retryable error", cause |-> err]
RetExhausted(n, err) == [kind |-> "operation failed after attempts", attempts |-> n, cause |-> err]
RetCtxErr == [kind |-> "ctx.Err"]
Panicked == [kind |-> "panic"]

\* A faulty variant of AttemptBranch that does not classify the error.
AttemptBranchNoClassify(config, att, err) ==
    IF err = NilErr THEN "success"
    ELSE IF att = config.MaxRetries THEN "exhausted"
    ELSE "backoff"

\* A faulty variant of AttemptBranch that backs off after the last attempt too.
AttemptBranchNoLastCheck(config, att, err) ==
    IF err = NilErr THEN "success"
    ELSE IF ~isRetryableError(err) THEN "non-retryable"
    ELSE "backoff"

\* A faulty variant of AttemptBranch without `if err == nil { return nil }`.
AttemptBranchNoSuccessCheck(config, att, err) ==
    IF ~isRetryableError(err) THEN "non-retryable"
    ELSE IF att = config.MaxRetries THEN "exhausted"
    ELSE "backoff"

\* Which way one loop iteration goes once `operation` has returned err.
AttemptBranch(config, att, err) ==
    IF err = NilErr THEN "success"
    ELSE IF ~isRetryableError(err) THEN "non-retryable"
    ELSE IF att = config.MaxRetries THEN "exhausted"
    ELSE "backoff"

\* Arithmetic on time.Duration wraps around.
MaxDuration == Pow2(DurationBits - 1) - 1
Wrap(x) ==
    LET r == x % Pow2(DurationBits)
    IN IF r > MaxDuration THEN r - Pow2(DurationBits) ELSE r

\* baseDelay := config.BaseDelay * time.Duration(1<<attempt)
BackoffBase(config, att) == Wrap(config.BaseDelay * Wrap(Pow2(att)))

\* delay := baseDelay + jitter
BackoffDelay(config, att, jitter) == Wrap(BackoffBase(config, att) + jitter)

\* rand.Int63n(n) panics when n <= 0, and returns a value of 0..n-1 otherwise.
JitterPanics(config) == config.BaseDelay <= 0
Jitters(config) == 0 .. (config.BaseDelay - 1)

\* The state of a component that is not running.
RetryIdle ==
    /\ cfg = [MaxRetries |-> 0, BaseDelay |-> 0]
    /\ attempt = 0
    /\ rpc = "done"
    /\ opLog = <<>>
    /\ waits = <<>>
    /\ result = NoResult

RunIdle ==
    /\ nTopics = 0
    /\ nPubs = 0
    /\ language = "en"
    /\ runPc = "Idle"
    /\ fetchLog = <<>>
    /\ papers = <<>>
    /\ sumCalls = 0
    /\ sumOutcome = "none"
    /\ sPc = "idle"
    /\ sAttempt = 0
    /\ apiCalls = 0
    /\ apiErr = NilErr
    /\ digest = [nil |-> TRUE]
    /\ pubIdx = 0
    /\ pubEvents = <<>>
    /\ publishErrors = <<>>
    /\ runResult = NoResult

ParseIdle ==
    /\ pBody = [nil |-> TRUE]
    /\ pFence = [tag |-> "none", spaced |-> FALSE]
    /\ pPapers = <<>>
    /\ pTopN = 0
    /\ pResult = NoResult

BatchIdle ==
    /\ embeds = <<>>
    /\ batchPc = "build"
    /\ batches = <<>>

DiscordIdle ==
    /\ retryConfig = [MaxRetries |-> 0, BaseDelay |-> 0]
    /\ pubBatches = <<>>
    /\ batchIdx = 0
    /\ sendAttempt = 0
    /\ pubPc = "idle"
    /\ posts = <<>>
    /\ batchDelays = <<>>
    /\ publishResult = NoResult

FetchIdle ==
    /\ fetchEntry = "Fetch"
    /\ topics = <<>>
    /\ maxResults = 0
    /\ fetchPc = "idle"
    /\ fetchPath = "none"
    /\ fetchAttempt = 0
    /\ requests = <<>>
    /\ lastResponse = [status |-> 0]
    /\ fetchedPapers = <<>>
    /\ fetchErr = NoResult

ClassifyIdle ==
    /\ classifyErr = NilErr
    /\ classifyPc = "idle"
    /\ classified = FALSE

DelayIdle ==
    /\ delayBase = 0
    /\ delayAttempt = 0
    /\ delayPc = "idle"
    /\ delay = 0

\* The tally of a run that has done nothing yet.
NoCalls(pubs) ==
    [calls |-> 0, published |-> [i \in 1 .. Len(pubs) |-> 0], failed |-> 0,
     result |-> "none"]

SuspendIdle ==
    /\ spPubs = <<>>
    /\ spPc = "start"
    /\ spAttempt = 0
    /\ spPub = 0
    /\ spBatchesLeft = 0
    /\ spTally = NoCalls(<<>>)

TruncateIdle ==
    /\ trS = <<>>
    /\ trMax = 1
    /\ trPc = "idle"
    /\ trOut = <<>>

LinksIdle ==
    /\ links = <<>>
    /\ linkPc = "idle"
    /\ paperURL = 0

RetryInit ==
    /\ LinksIdle
    /\ TruncateIdle
    /\ SuspendIdle
    /\ DelayIdle
    /\ RunIdle
    /\ DiscordIdle
    /\ FetchIdle
    /\ ClassifyIdle
    /\ ParseIdle
    /\ BatchIdle
    /\ cfg \in [MaxRetries : -1 .. MaxRetriesBound, BaseDelay : 0 .. MaxBaseDelay]
    /\ attempt = 0
    /\ rpc = "call"
    /\ opLog = <<>>
    /\ waits = <<>>
    /\ result = NoResult
    /\ cancelled = FALSE

\* One iteration of the loop, from the call of `operation` to the select.
Attempt ==
    /\ rpc = "call"
    /\ attempt <= cfg.MaxRetries
    /\ \E err \in {NilErr} \cup OpErrors :
        LET branch == AttemptBranch(cfg, attempt, err) IN
        /\ opLog' = Append(opLog, err)
        /\ \/ /\ branch = "success"
              /\ rpc' = "done"
              /\ result' = RetNil
              /\ UNCHANGED waits
           \/ /\ branch = "non-retryable"
              /\ rpc' = "done"
              /\ result' = RetNonRetryable(err)
              /\ UNCHANGED waits
           \/ /\ branch = "exhausted"
              /\ rpc' = "done"
              /\ result' = RetExhausted(cfg.MaxRetries + 1, err)
              /\ UNCHANGED waits
           \/ /\ branch = "backoff"
              /\ JitterPanics(cfg)
              /\ rpc' = "done"
              /\ result' = Panicked
              /\ UNCHANGED waits
           \/ /\ branch = "backoff"
              /\ ~JitterPanics(cfg)
              /\ \E jitter \in Jitters(cfg) :
                    waits' = Append(waits, BackoffDelay(cfg, attempt, jitter))
              /\ rpc' = "wait"
              /\ UNCHANGED result
    /\ UNCHANGED <<cfg, attempt, cancelled, nonRetryVars>>

\* The loop condition fails before any iteration: `return nil` after the loop.
LoopExit ==
    /\ rpc = "call"
    /\ attempt > cfg.MaxRetries
    /\ rpc' = "done"
    /\ result' = RetNil
    /\ UNCHANGED <<cfg, attempt, opLog, waits, cancelled, nonRetryVars>>

\* A faulty variant of BackoffElapsed that sleeps instead of selecting on ctx.Done().
BackoffSleepElapsed ==
    /\ rpc = "wait"
    /\ rpc' = "call"
    /\ attempt' = attempt + 1
    /\ UNCHANGED <<cfg, opLog, waits, result, cancelled, nonRetryVars>>

\* select: case <-time.After(delay).  The delay is positive, so the timer is
\* not ready when the select is entered; it wins only if ctx.Done() is not
\* closed before it fires.
BackoffElapsed ==
    /\ rpc = "wait"
    /\ ~cancelled
    /\ rpc' = "call"
    /\ attempt' = attempt + 1
    /\ UNCHANGED <<cfg, opLog, waits, result, cancelled, nonRetryVars>>

\* select: case <-ctx.Done(): return ctx.Err()
BackoffCancelled ==
    /\ rpc = "wait"
    /\ cancelled
    /\ rpc' = "done"
    /\ result' = RetCtxErr
    /\ UNCHANGED <<cfg, attempt, opLog, waits, cancelled, nonRetryVars>>

\* The caller's context is cancelled (or its deadline passes).
Cancel ==
    /\ ~cancelled
    /\ rpc # "done"
    /\ cancelled' = TRUE
    /\ UNCHANGED <<retryVars, nonRetryVars>>

RetryNext ==
    \/ Attempt
    \/ LoopExit
    \/ BackoffElapsed
    \/ BackoffCancelled
    \/ Cancel

SpecRetry == RetryInit /\ [][RetryNext]_vars

(***************************************************************************)
(* Claims about retry.WithBackoff (checked under SpecRetry).               *)
(***************************************************************************)
Last(s) == s[Len(s)]

AllRetryableFailures(log) ==
    \A i \in 1 .. Len(log) : log[i] # NilErr /\ isRetryableError(log[i])

\* C1: with MaxRetries = N >= 0, no cancellation and an operation that fails
\* with a retryable error on every invocation, WithBackoff ends having invoked
\* the operation exactly N+1 times and returns the wrapped error that states
\* the attempt count N+1.
C1_ExhaustedAfterNPlus1 ==
    (/\ rpc = "done"
     /\ cfg.MaxRetries >= 0
     /\ ~cancelled
     /\ AllRetryableFailures(opLog))
    => /\ Len(opLog) = cfg.MaxRetries + 1
       /\ result = RetExhausted(cfg.MaxRetries + 1, Last(opLog))

\* The same statement for the configurations whose BaseDelay is positive
\* (where rand.Int63n does not panic).
RetryExhaustedPositiveDelay ==
    cfg.BaseDelay > 0 => C1_ExhaustedAfterNPlus1

\* C2: an invocation that returns a non-retryable error is the last one and
\* WithBackoff returns that error wrapped as "non-retryable error"; when it is
\* the first invocation, the operation was invoked exactly once and no backoff
\* wait was made, whatever MaxRetries >= 0 is.
C2_NonRetryableReturnsAtOnce ==
    \A i \in 1 .. Len(opLog) :
        (opLog[i] # NilErr /\ ~isRetryableError(opLog[i]))
        => /\ i = Len(opLog)
           /\ rpc = "done"
           /\ result = RetNonRetryable(opLog[i])
           /\ Len(waits) = i - 1

C2_Witness ==
    /\ rpc = "done"
    /\ cfg.MaxRetries = MaxRetriesBound
    /\ opLog = <<ErrStatus400>>
    /\ waits = <<>>
    /\ result = RetNonRetryable(ErrStatus400)

\* C3: once ctx is cancelled during a backoff wait, the only way out of the
\* wait is the return of ctx.Err(), with no further invocation of the
\* operation; and after WithBackoff has returned, the operation is never
\* invoked again.
C3_CancelAbortsWait ==
    [][/\ (rpc = "wait" /\ cancelled)
          => \/ rpc' = "wait" /\ opLog' = opLog
             \/ rpc' = "done" /\ result' = RetCtxErr /\ opLog' = opLog
       /\ rpc = "done" => (rpc' = "done" /\ opLog' = opLog /\ result' = result)]_vars

\* Cancelled in the first wait with retries left: ctx.Err() is returned, not
\* the operation's error.
C3_Witness ==
    /\ rpc = "done"
    /\ result = RetCtxErr
    /\ Len(opLog) = 1
    /\ Len(waits) = 1
    /\ cfg.MaxRetries = MaxRetriesBound

\* The waits that ran to their end: all the waits entered, but the one that
\* a cancellation cut short.
CompletedWaits == IF result = RetCtxErr THEN Len(waits) - 1 ELSE Len(waits)

C19_ReturnsNilOnFirstSuccess ==
    /\ [](\A k \in 1 .. Len(opLog) :
            opLog[k] = NilErr
            => /\ k = Len(opLog)
               /\ k <= cfg.MaxRetries + 1
               /\ \A j \in 1 .. (k - 1) : opLog[j] # NilErr /\ isRetryableError(opLog[j])
               /\ Len(waits) = k - 1
               /\ rpc = "done"
               /\ result = RetNil)
    /\ [][(opLog # <<>> /\ opLog[Len(opLog)] = NilErr)
            => (opLog' = opLog /\ waits' = waits /\ result' = result /\ rpc' = rpc)]_vars

\* Success on the last allowed attempt, after MaxRetries retryable failures.
C19_Witness ==
    /\ rpc = "done"
    /\ result = RetNil
    /\ cfg.MaxRetries = MaxRetriesBound
    /\ Len(opLog) = MaxRetriesBound + 1
    /\ opLog[Len(opLog)] = NilErr
    /\ Len(waits) = MaxRetriesBound

\* C35: WithBackoff returns nil only if some invocation of the operation
\* made during the call returned nil, whatever the Config.
C35_NilOnlyAfterNilInvocation ==
    (rpc = "done" /\ result = RetNil)
        => \E i \in 1 .. Len(opLog) : opLog[i] = NilErr

\* The same statement for the configurations with MaxRetries >= 0, where the
\* loop body runs at least once.
NilOnlyAfterNilInvocationUnlessNegativeRetries ==
    (rpc = "done" /\ result = RetNil /\ cfg.MaxRetries >= 0)
        => (opLog # <<>> /\ Last(opLog) = NilErr)

\* With MaxRetries = -1 WithBackoff returned nil and never invoked the
\* operation.
SuccessWithoutInvocation ==
    /\ rpc = "done"
    /\ result = RetNil
    /\ opLog = <<>>
    /\ cfg.MaxRetries < 0

\* C36: with MaxRetries >= 0 and BaseDelay >= 0, WithBackoff ends by
\* returning nil or an error, never by a panic.
C36_NeverAborts ==
    (cfg.MaxRetries >= 0 /\ cfg.BaseDelay >= 0 /\ rpc = "done")
        => result \in {RetNil, RetCtxErr}
                \cup {RetNonRetryable(e) : e \in OpErrors}
                \cup {RetExhausted(cfg.MaxRetries + 1, e) : e \in OpErrors}

\* The same statement for the configurations that never make rand.Int63n
\* panic: BaseDelay positive, or no retry allowed.
NeverAbortsUnlessZeroBaseDelay ==
    (cfg.MaxRetries >= 0 /\ rpc = "done" /\ (cfg.BaseDelay > 0 \/ cfg.MaxRetries = 0))
        => result # Panicked

\* With BaseDelay = 0 the first retryable failure made rand.Int63n(0) panic.
PanicOnFirstBackoff ==
    /\ rpc = "done"
    /\ result = Panicked
    /\ cfg.BaseDelay = 0
    /\ cfg.MaxRetries >= 1
    /\ Len(opLog) = 1
    /\ isRetryableError(opLog[1])

(***************************************************************************)
(* AnthropicSummarizer.parseResponse                                       *)
(* A paper is [Title |-> i]; the document of the model's response is       *)
(* either text that is not JSON, or a digestJSON [overview, summaries], an *)
(* entry of summaries being [Index, Summary].  The response itself is a    *)
(* text: a sequence of tokens, each a run of whitespace, a fence marker, a *)
(* word, or the document.                                                  *)
(***************************************************************************)
NoDigest == [nil |-> TRUE]

Papers(n) == [i \in 1 .. n |-> [Title |-> i]]

MalformedBody == [valid |-> FALSE]
JSONBody(overview, summaries) ==
    [valid |-> TRUE, overview |-> overview, summaries |-> summaries]

\* A faulty variant of IndexToPos that takes the index as 0-based already.
IndexToPosNoShift(index) == index

\* idx := sj.Index - 1
IndexToPos(index) == index - 1

\* if idx < 0 || idx >= len(papers) { continue }
OutOfRange(idx, ps) == idx < 0 \/ idx >= Len(ps)

\* The loop over dj.Summaries, from entry k on, appending to acc.
RECURSIVE ParseSummaries(_, _, _, _)
ParseSummaries(entries, ps, k, acc) ==
    IF k > Len(entries) THEN acc
    ELSE LET sj == entries[k]
             idx == IndexToPos(sj.Index)
         IN IF OutOfRange(idx, ps)
            THEN ParseSummaries(entries, ps, k + 1, acc)
            ELSE ParseSummaries(entries, ps, k + 1,
                     Append(acc, [Paper |-> ps[idx + 1], Summary |-> sj.Summary]))

ParseError(body) == [kind |-> "anthropic: failed to parse LLM JSON", raw |-> body]

Ws == [tok |-> "ws"]
Fence == [tok |-> "fence"]
Word(w) == [tok |-> "word", word |-> w]
Doc(b) == [tok |-> "doc", json |-> b]

\* A response that is the document and nothing else.
Text(b) == <<Doc(b)>>

\* strings.TrimSpace
RECURSIVE TrimLeft(_)
TrimLeft(t) == IF Len(t) > 0 /\ Head(t) = Ws THEN TrimLeft(Tail(t)) ELSE t
RECURSIVE TrimRight(_)
TrimRight(t) ==
    IF Len(t) > 0 /\ t[Len(t)] = Ws THEN TrimRight(SubSeq(t, 1, Len(t) - 1)) ELSE t
TrimSpace(t) == TrimRight(TrimLeft(t))

\* strings.TrimPrefix, strings.TrimSuffix
TrimPrefix(t, prefix) ==
    IF Len(t) >= Len(prefix) /\ SubSeq(t, 1, Len(prefix)) = prefix
    THEN SubSeq(t, Len(prefix) + 1, Len(t))
    ELSE t
TrimSuffix(t, suffix) ==
    IF Len(t) >= Len(suffix) /\ SubSeq(t, Len(t) - Len(suffix) + 1, Len(t)) = suffix
    THEN SubSeq(t, 1, Len(t) - Len(suffix))
    ELSE t

\* The four statements that strip the markdown fences.
StripFences(body) ==
    TrimSpace(TrimSuffix(TrimPrefix(TrimPrefix(TrimSpace(body),
                                               <<Fence, Word("json")>>),
                                    <<Fence>>),
                         <<Fence>>))

\* json.Unmarshal accepts the text when it is one well-formed document.
Unmarshals(t) == Len(t) = 1 /\ t[1].tok = "doc" /\ t[1].json.valid

\* parseResponse returns (digest, err).
parseResponse(body, ps) ==
    LET stripped == StripFences(body) IN
    IF ~Unmarshals(stripped)
    THEN [digest |-> NoDigest, err |-> ParseError(stripped)]
    ELSE [digest |-> [Overview |-> stripped[1].json.overview,
                      Summaries |-> ParseSummaries(stripped[1].json.summaries, ps, 1, <<>>)],
          err |-> NilErr]

\* The responses tried wrap the document in nothing, in a plain fence, or in
\* a fence tagged json or JSON, with or without whitespace around the fence.
FenceTags == {"none", "plain", "json", "JSON"}
FenceStyles == [tag : FenceTags, spaced : BOOLEAN]

Fenced(style, b) ==
    LET opening == IF style.tag = "plain" THEN <<Fence>> ELSE <<Fence, Word(style.tag)>>
        around == IF style.spaced THEN <<Ws>> ELSE <<>>
    IN IF style.tag = "none"
       THEN around \o Text(b) \o around
       ELSE around \o opening \o <<Ws>> \o Text(b) \o <<Ws, Fence>> \o around

\* The responses tried: every list of at most MaxEntries entries whose indices
\* range from below 1 to above the number of papers; entry k has Summary k.
Indices == -1 .. (MaxPapers + 1)
EntryLists ==
    UNION {[1 .. n -> Indices] : n \in 0 .. MaxEntries}
Entries(ixs) == [k \in 1 .. Len(ixs) |-> [Index |-> ixs[k], Summary |-> k]]

ParseInit ==
    /\ LinksIdle
    /\ TruncateIdle
    /\ SuspendIdle
    /\ RetryIdle
    /\ DelayIdle
    /\ DiscordIdle
    /\ FetchIdle
    /\ ClassifyIdle
    /\ BatchIdle
    /\ cancelled = FALSE
    /\ RunIdle
    /\ pPapers \in {Papers(n) : n \in 0 .. MaxPapers}
    /\ pBody \in {MalformedBody} \cup {JSONBody("overview", Entries(ixs)) : ixs \in EntryLists}
    /\ pFence \in FenceStyles
    /\ pTopN \in 1 .. MaxPapers
    /\ pResult = NoResult

ParseResponse ==
    /\ pResult = NoResult
    /\ pResult' = parseResponse(Fenced(pFence, pBody), pPapers)
    /\ UNCHANGED <<pBody, pFence, pPapers, pTopN, nonParseVars>>

ParseNext == ParseResponse

SpecParse == ParseInit /\ [][ParseNext]_vars

\* C9: with P papers, parseResponse gives exactly one ItemSummary for each
\* entry whose index is in 1..P, in the entries' order, the summary of an entry
\* with index i referencing the i-th paper; entries with index <= 0 or > P give
\* none, and none of them makes parseResponse fail.
InRange(e) == e.Index \in 1 .. Len(pPapers)

C9_IndexRemap ==
    (pResult # NoResult /\ pBody.valid /\ pFence.tag = "none")
    => LET kept == SelectSeq(pBody.summaries, InRange)
       IN /\ pResult.err = NilErr
          /\ Len(pResult.digest.Summaries) = Len(kept)
          /\ \A k \in 1 .. Len(kept) :
                /\ pResult.digest.Summaries[k].Summary = kept[k].Summary
                /\ pResult.digest.Summaries[k].Paper = [Title |-> kept[k].Index]

\* Indices 0, 1 and P+1 in one response over P = MaxPapers papers: only the
\* entry with index 1 gives a summary, of the first paper.
C9_Witness ==
    /\ pResult # NoResult
    /\ pFence.tag = "none"
    /\ Len(pPapers) = MaxPapers
    /\ pBody.valid
    /\ Len(pBody.summaries) = 3
    /\ pBody.summaries[1].Index = 0
    /\ pBody.summaries[2].Index = 1
    /\ pBody.summaries[3].Index = MaxPapers + 1
    /\ pResult.digest.Summaries = <<[Paper |-> [Title |-> 1], Summary |-> 2]>>

\* C20: a response that wraps the document in a fence, plain or tagged, with
\* or without whitespace around it, gives the digest (overview and summaries)
\* that the document alone gives, and fails only if the document alone does.
C20_FencedParsesAsUnfenced ==
    pResult # NoResult
    => LET unfenced == parseResponse(Text(pBody), pPapers)
       IN /\ pResult.digest = unfenced.digest
          /\ (pResult.err = NilErr) = (unfenced.err = NilErr)

\* The same statement for the fences that parseResponse strips: the plain
\* one and the one tagged json.
FencedParsesAsUnfencedForJsonTag ==
    pFence.tag \in {"none", "plain", "json"} => C20_FencedParsesAsUnfenced

\* A well-formed document in a fence tagged JSON is not parsed.
UppercaseTagRejected ==
    /\ pResult # NoResult
    /\ pFence.tag = "JSON"
    /\ pBody.valid
    /\ pResult.err # NilErr

\* C29: a Digest built from a response has at most topN summaries.
C29_AtMostTopNSummaries ==
    (pResult # NoResult /\ pResult.err = NilErr)
    => Len(pResult.digest.Summaries) <= pTopN

\* What bounds the summaries is the response: one summary for each of its
\* entries whose index is in range, however many there are.
SummariesBoundedByEntries ==
    (pResult # NoResult /\ pResult.err = NilErr)
    => Len(pResult.digest.Summaries) = Len(SelectSeq(pBody.summaries, InRange))

\* A response with MaxEntries entries in range gives MaxEntries summaries,
\* more than topN and more than there are papers.
MoreSummariesThanTopN ==
    /\ pResult # NoResult
    /\ pResult.err = NilErr
    /\ Len(pResult.digest.Summaries) = MaxEntries
    /\ Len(pResult.digest.Summaries) > pTopN
    /\ Len(pResult.digest.Summaries) > Len(pPapers)

\* C21: when the text of the response is malformed, parseResponse returns no
\* Digest and an error that carries the parse-failure marker together with
\* the original text of the response.
C21_MalformedTextFails ==
    (pResult # NoResult /\ ~pBody.valid)
    => /\ pResult.digest = NoDigest
       /\ pResult.err # NilErr
       /\ pResult.err.kind = "anthropic: failed to parse LLM JSON"
       /\ pResult.err.raw = Fenced(pFence, pBody)

\* What the error carries is the text json.Unmarshal was given: the response
\* without surrounding whitespace and without the fence markers stripped.
MalformedTextFailsWithCleanedText ==
    (pResult # NoResult /\ ~pBody.valid)
    => /\ pResult.digest = NoDigest
       /\ pResult.err # NilErr
       /\ pResult.err.kind = "anthropic: failed to parse LLM JSON"
       /\ pResult.err.raw = IF pFence.tag = "JSON"
                            THEN <<Word("JSON"), Ws, Doc(pBody)>>
                            ELSE <<Doc(pBody)>>

\* A malformed response in a fence: the error carries the text inside the
\* fence, not the response.
CleanedTextDiffersFromOriginal ==
    /\ pResult # NoResult
    /\ ~pBody.valid
    /\ pFence.tag = "json"
    /\ pResult.err # NilErr
    /\ pResult.err.raw # Fenced(pFence, pBody)

(***************************************************************************)
(* Runner.Run, with AnthropicSummarizer.Summarize as its summarizer.  The  *)
(* fetcher and the publishers are the interfaces Run calls: a call returns *)
(* any of the values the interface allows.  Run is cut where it calls a    *)
(* collaborator that may block: Fetch, callAPI, the backoff select of      *)
(* retryWithBackoff, and Publish.                                          *)
(***************************************************************************)
\* The errors Run returns.
RunFetchFailed(err) == [kind |-> "runner: fetch failed", cause |-> err]
RunSummarizeFailed(err) == [kind |-> "runner: summarize failed", cause |-> err]
RunAllPublishersFailed(errs) == [kind |-> "runner: all publishers failed", errors |-> errs]

\* retryWithBackoff of the summarizer: maxRetries := 3
SummarizerMaxRetries == 3

\* if len(topics) == 1 { Fetch } else { FetchMultiple }
FetchMethod(n) == IF n = 1 THEN "Fetch" ELSE "FetchMultiple"

\* A faulty variant of FetchFailed that ignores the fetch error.
FetchErrorIgnored(err) == FALSE

\* if err != nil { return fmt.Errorf("runner: fetch failed: %w", err) }
FetchFailed(err) == err # NilErr

\* A faulty variant of SummarizeFailed that ignores the summarize error.
SummarizeErrorIgnored(err) == FALSE

\* if err != nil { return fmt.Errorf("runner: summarize failed: %w", err) }
SummarizeFailed(err) == err # NilErr

\* A faulty variant of SkipsSummarization that sends an empty list to the API.
NeverSkipsSummarization(ps) == FALSE

\* if len(papers) == 0 { return &Digest{...}, nil }
SkipsSummarization(ps) == Len(ps) = 0

\* noResultsText: the Japanese text when language == "ja", the English text
\* otherwise; both embed the topic list.
NoResultsText(lang) ==
    IF lang = "ja" THEN [message |-> "no papers found", in |-> "ja"]
    ELSE [message |-> "no papers found", in |-> "en"]

NoResultsDigest(lang) == [Overview |-> NoResultsText(lang), Summaries |-> <<>>]

\* A faulty variant of AllPublishersFailed that fails the run on any publish error.
AnyPublisherFailed(errs, n) == Len(errs) > 0

\* if len(publishErrors) == len(r.publishers) && len(r.publishers) > 0
AllPublishersFailed(errs, n) == Len(errs) = n /\ n > 0

\* A faulty variant of HasNextPublisher that stops at the first publish error.
HasNextPublisherUnlessFailed(i, n, err) == i < n /\ err = NilErr

\* A faulty variant of HasNextPublisher that leaves the loop once ctx is done.
HasNextPublisherUnlessCancelled(i, n, err) == i < n /\ ~cancelled

\* for _, pub := range r.publishers: the loop goes on after publisher i,
\* whatever its Publish returned.
HasNextPublisher(i, n, err) == i < n

CallEvent(i, d) == [ev |-> "call", pub |-> i, digest |-> d]
ReturnEvent(i, err) == [ev |-> "return", pub |-> i, err |-> err]
PublishError(i, err) == [pub |-> i, cause |-> err]

\* The bodies callAPI may return in a run.
RunBodies(ps) ==
    {MalformedBody,
     JSONBody("overview", Entries(<<1>>)),
     JSONBody("overview", Entries(<<Len(ps) + 1, Len(ps), 0>>))}

RunInit ==
    /\ LinksIdle
    /\ TruncateIdle
    /\ SuspendIdle
    /\ RetryIdle
    /\ DelayIdle
    /\ DiscordIdle
    /\ FetchIdle
    /\ ClassifyIdle
    /\ BatchIdle
    /\ ParseIdle
    /\ cancelled = FALSE
    /\ nTopics \in 0 .. MaxTopics
    /\ nPubs \in 0 .. MaxPubs
    /\ language \in {"en", "ja"}
    /\ runPc = "Idle"
    /\ fetchLog = <<>>
    /\ papers = <<>>
    /\ sumCalls = 0
    /\ sumOutcome = "none"
    /\ sPc = "idle"
    /\ sAttempt = 0
    /\ apiCalls = 0
    /\ apiErr = NilErr
    /\ digest = NoDigest
    /\ pubIdx = 0
    /\ pubEvents = <<>>
    /\ publishErrors = <<>>
    /\ runResult = NoResult

\* Run is called: it calls Fetch or FetchMultiple.
RunStart ==
    /\ runPc = "Idle"
    /\ runPc' = "Fetching"
    /\ fetchLog' = <<[method |-> FetchMethod(nTopics), outcome |-> "pending"]>>
    /\ UNCHANGED <<nTopics, nPubs, language, papers, sumCalls, sumOutcome, sPc,
                   sAttempt, apiCalls, apiErr, digest, pubIdx, pubEvents, publishErrors,
                   runResult, cancelled, nonRunVars>>

\* Run, from the return of Summarize with (d, err) to the first Publish call
\* or, without publishers, to its return.
AfterSummarize(d, err) ==
    /\ digest' = d
    /\ sPc' = "idle"
    /\ IF SummarizeFailed(err)
       THEN /\ sumOutcome' = "err"
            /\ runPc' = "Failed"
            /\ runResult' = RunSummarizeFailed(err)
            /\ UNCHANGED <<pubIdx, pubEvents, publishErrors>>
       ELSE /\ sumOutcome' = IF err = NilErr THEN "ok" ELSE "err"
            /\ publishErrors' = <<>>
            /\ IF nPubs > 0
               THEN /\ runPc' = "Publishing"
                    /\ pubIdx' = 1
                    /\ pubEvents' = <<CallEvent(1, d)>>
                    /\ UNCHANGED runResult
               ELSE /\ runPc' = IF AllPublishersFailed(<<>>, nPubs) THEN "Failed" ELSE "Done"
                    /\ runResult' = IF AllPublishersFailed(<<>>, nPubs)
                                    THEN RunAllPublishersFailed(<<>>) ELSE RetNil
                    /\ UNCHANGED <<pubIdx, pubEvents>>

\* Summarize(papers) up to its first blocking point: it returns at once for an
\* empty list, and enters retryWithBackoff otherwise.
EnterSummarize(ps) ==
    /\ sumCalls' = sumCalls + 1
    /\ sAttempt' = 0
    /\ IF SkipsSummarization(ps)
       THEN AfterSummarize(NoResultsDigest(language), NilErr)
       ELSE /\ runPc' = "Summarizing"
            /\ sPc' = "call"
            /\ UNCHANGED <<sumOutcome, digest, pubIdx, pubEvents, publishErrors, runResult>>

\* What Fetch or FetchMultiple may return: an error, or a list of papers.
FetchResults ==
    {[papers |-> <<>>, err |-> ErrUnknown]}
        \cup {[papers |-> Papers(n), err |-> NilErr] : n \in 0 .. MaxPapers}

\* Fetch returns: Run returns its error, or calls Summarize with its papers.
FetchReturns ==
    /\ runPc = "Fetching"
    /\ \E r \in FetchResults :
        /\ fetchLog' = <<[fetchLog[1] EXCEPT !.outcome = IF r.err = NilErr THEN "ok" ELSE "error"]>>
        /\ papers' = r.papers
        /\ IF FetchFailed(r.err)
           THEN /\ runPc' = "Failed"
                /\ runResult' = RunFetchFailed(r.err)
                /\ UNCHANGED <<sumCalls, sumOutcome, sPc, sAttempt, digest,
                               pubIdx, pubEvents, publishErrors>>
           ELSE EnterSummarize(r.papers)
    /\ UNCHANGED <<nTopics, nPubs, language, apiCalls, apiErr, cancelled, nonRunVars>>

\* "anthropic: API error: %s - %s": the response carries an error object.
ErrAPIError == [text |-> {"api error"}]

\* The errors callAPI returns: the request failed, or the response carries an
\* error object.
CallAPIErrors == {ErrUnknown, ErrAPIError}

\* retryWithBackoff: callAPI fails.  After the last attempt Summarize returns
\* the error, otherwise the backoff wait starts.
CallAPIFails ==
    /\ runPc = "Summarizing"
    /\ sPc = "call"
    /\ apiCalls' = apiCalls + 1
    /\ \E err \in CallAPIErrors :
        /\ apiErr' = err
        /\ IF sAttempt = SummarizerMaxRetries
           THEN AfterSummarize(NoDigest, RetExhausted(SummarizerMaxRetries + 1, err))
           ELSE /\ sPc' = "wait"
                /\ UNCHANGED <<runPc, sumOutcome, digest, pubIdx, pubEvents, publishErrors,
                               runResult>>
    /\ UNCHANGED <<nTopics, nPubs, language, fetchLog, papers, sumCalls, sAttempt,
                   cancelled, nonRunVars>>

\* retryWithBackoff: callAPI returns text, which parseResponse turns into the
\* Digest or into an error.
CallAPIReturnsBody ==
    /\ runPc = "Summarizing"
    /\ sPc = "call"
    /\ apiCalls' = apiCalls + 1
    /\ apiErr' = NilErr
    /\ \E body \in RunBodies(papers) :
        LET r == parseResponse(Text(body), papers)
        IN AfterSummarize(r.digest, r.err)
    /\ UNCHANGED <<nTopics, nPubs, language, fetchLog, papers, sumCalls, sAttempt,
                   cancelled, nonRunVars>>

\* retryWithBackoff: case <-time.After(delay)
SummarizeBackoffElapsed ==
    /\ runPc = "Summarizing"
    /\ sPc = "wait"
    /\ ~cancelled
    /\ sPc' = "call"
    /\ sAttempt' = sAttempt + 1
    /\ UNCHANGED <<nTopics, nPubs, language, runPc, fetchLog, papers, sumCalls,
                   sumOutcome, apiCalls, apiErr, digest, pubIdx, pubEvents, publishErrors,
                   runResult, cancelled, nonRunVars>>

\* retryWithBackoff: case <-ctx.Done(): return ctx.Err()
SummarizeBackoffCancelled ==
    /\ runPc = "Summarizing"
    /\ sPc = "wait"
    /\ cancelled
    /\ AfterSummarize(NoDigest, RetCtxErr)
    /\ UNCHANGED <<nTopics, nPubs, language, fetchLog, papers, sumCalls, sAttempt,
                   apiCalls, apiErr, cancelled, nonRunVars>>

\* A faulty variant of DigestAfterPublish: a publisher that empties the
\* summaries of the Digest it was handed.
DigestClearedByPublish(d) == [d EXCEPT !.Summaries = <<>>]

\* The Digest behind the pointer handed to Publish, once Publish has
\* returned: the publishers (Discord, email, web, stdout) only read it.
DigestAfterPublish(d) == d

\* Publish of publisher pubIdx returns err: the error is recorded, and Run
\* calls the next publisher or, after the last one, returns.
PublishReturns ==
    /\ runPc = "Publishing"
    /\ \E err \in {NilErr, ErrUnknown} :
        LET errs == IF err # NilErr
                    THEN Append(publishErrors, PublishError(pubIdx, err))
                    ELSE publishErrors
            returned == Append(pubEvents, ReturnEvent(pubIdx, err))
        IN /\ publishErrors' = errs
           /\ IF HasNextPublisher(pubIdx, nPubs, err)
              THEN /\ pubIdx' = pubIdx + 1
                   /\ pubEvents' = Append(returned, CallEvent(pubIdx + 1, digest))
                   /\ UNCHANGED <<runPc, runResult>>
              ELSE /\ pubEvents' = returned
                   /\ runPc' = IF AllPublishersFailed(errs, nPubs) THEN "Failed" ELSE "Done"
                   /\ runResult' = IF AllPublishersFailed(errs, nPubs)
                                   THEN RunAllPublishersFailed(errs) ELSE RetNil
                   /\ UNCHANGED pubIdx
    /\ digest' = DigestAfterPublish(digest)
    /\ UNCHANGED <<nTopics, nPubs, language, fetchLog, papers, sumCalls, sumOutcome,
                   sPc, sAttempt, apiCalls, apiErr, cancelled, nonRunVars>>

\* The context of the run is cancelled.
RunCancel ==
    /\ runPc \in {"Fetching", "Summarizing", "Publishing"}
    /\ ~cancelled
    /\ cancelled' = TRUE
    /\ UNCHANGED <<runVars, nonRunVars>>

RunNext ==
    \/ RunStart
    \/ FetchReturns
    \/ CallAPIFails
    \/ CallAPIReturnsBody
    \/ SummarizeBackoffElapsed
    \/ SummarizeBackoffCancelled
    \/ PublishReturns
    \/ RunCancel

SpecRun == RunInit /\ [][RunNext]_vars

(***************************************************************************)
(* Claims about Runner.Run (checked under SpecRun).                        *)
(***************************************************************************)
RunEnded == runPc \in {"Done", "Failed"}

PublisherFailed(i) ==
    \E k \in 1 .. Len(pubEvents) :
        /\ pubEvents[k].ev = "return"
        /\ pubEvents[k].pub = i
        /\ pubEvents[k].err # NilErr

\* C4: when fetch and summarize have succeeded and Run has returned, it has
\* returned an error if and only if there is at least one publisher and the
\* Publish of every publisher returned an error; otherwise it returned nil.
C4_FailsIffAllPublishersFail ==
    (RunEnded /\ sumOutcome = "ok")
    => /\ (runResult # RetNil) <=> (nPubs > 0 /\ \A i \in 1 .. nPubs : PublisherFailed(i))
       /\ (runPc = "Failed") <=> (runResult # RetNil)
       /\ runResult # RetNil => runResult.kind = "runner: all publishers failed"

\* Two publishers, the first fails and the second succeeds: Run returns nil.
C4_Witness ==
    /\ runPc = "Done"
    /\ runResult = RetNil
    /\ nPubs = 2
    /\ PublisherFailed(1)
    /\ ~PublisherFailed(2)

\* C5: the Publish calls and returns alternate, publisher 1 first and then in
\* the configured order, each publisher at most once; and when Run has
\* returned after a successful summarize, every publisher has been called and
\* has returned exactly once, whichever of them failed.
C5_PublishersInOrderOneAtATime ==
    /\ \A k \in 1 .. Len(pubEvents) :
          /\ pubEvents[k].pub = (k + 1) \div 2
          /\ pubEvents[k].ev = IF k % 2 = 1 THEN "call" ELSE "return"
    /\ Len(pubEvents) <= 2 * nPubs
    /\ (RunEnded /\ sumOutcome = "ok") => Len(pubEvents) = 2 * nPubs

\* Three publishers, the first two fail: the third is still called.
C5_Witness ==
    /\ RunEnded
    /\ nPubs = 3
    /\ Len(pubEvents) = 6
    /\ PublisherFailed(1)
    /\ PublisherFailed(2)
    /\ ~PublisherFailed(3)

\* C6: when the fetch call has returned an error, Run has returned the fetch
\* error (Failed) and neither Summarize, nor the summarization API, nor any
\* Publish has been invoked.
C6_FetchErrorAbandonsRun ==
    (fetchLog # <<>> /\ fetchLog[1].outcome = "error")
    => /\ runPc = "Failed"
       /\ runResult # RetNil
       /\ runResult.kind = "runner: fetch failed"
       /\ sumCalls = 0
       /\ apiCalls = 0
       /\ pubEvents = <<>>

C6_Witness ==
    /\ fetchLog # <<>>
    /\ fetchLog[1].outcome = "error"
    /\ runPc = "Failed"
    /\ nPubs = MaxPubs
    /\ pubEvents = <<>>

\* C7: Summarize has been invoked only if the fetch call returned without
\* error; and when Summarize has returned an error, Run has returned the
\* summarize error (Failed) and no Publish has been invoked.
C7_SummarizeErrorAbandonsRun ==
    /\ sumCalls > 0 => (fetchLog # <<>> /\ fetchLog[1].outcome = "ok")
    /\ sumOutcome = "err"
       => /\ runPc = "Failed"
          /\ runResult # RetNil
          /\ runResult.kind = "runner: summarize failed"
          /\ pubEvents = <<>>

C7_Witness ==
    /\ sumOutcome = "err"
    /\ runPc = "Failed"
    /\ nPubs = MaxPubs
    /\ pubEvents = <<>>
    /\ apiCalls = 1

CallEvents == SelectSeq(pubEvents, LAMBDA e : e.ev = "call")

\* C27: once a run publishes, Summarize has been invoked exactly once, every
\* Publish call so far was handed the Digest that Summarize returned, and
\* from the first Publish call on the Digest does not change and Summarize is
\* not invoked again.
C27_OneDigestForAllPublishers ==
    /\ []((runPc = "Publishing" \/ pubEvents # <<>>)
            => /\ sumCalls = 1
               /\ sumOutcome = "ok"
               /\ digest # NoDigest
               /\ \A k \in 1 .. Len(CallEvents) :
                    /\ CallEvents[k].pub = k
                    /\ CallEvents[k].digest = digest)
    /\ [][pubEvents # <<>> => (digest' = digest /\ sumCalls' = sumCalls)]_vars

\* A finished run with MaxPubs publishers, each handed the same Digest of at
\* least one summary, whatever the publishers returned.
C27_Witness ==
    /\ runPc \in {"Done", "Failed"}
    /\ nPubs = MaxPubs
    /\ Len(CallEvents) = MaxPubs
    /\ digest # NoDigest
    /\ Len(digest.Summaries) >= 1
    /\ \A k \in 1 .. Len(CallEvents) : CallEvents[k].digest = digest
    /\ publishErrors # <<>>

\* Publish of publisher i has been called.
PublisherCalled(i) ==
    \E k \in 1 .. Len(pubEvents) : pubEvents[k].ev = "call" /\ pubEvents[k].pub = i

\* C40: with ctx cancelled, Run leaves the publish loop only after the last
\* publisher; when it has returned, every publisher has been called, and it
\* has returned nil if the Publish of any of them returned nil.
C40_CancelDoesNotStopPublishing ==
    /\ [][(cancelled /\ runPc = "Publishing" /\ pubIdx < nPubs)
            => (runPc' = "Publishing" /\ pubIdx' \in {pubIdx, pubIdx + 1})]_vars
    /\ []((cancelled /\ RunEnded /\ pubEvents # <<>>) =>
            /\ \A i \in 1 .. nPubs : PublisherCalled(i)
            /\ (\E i \in 1 .. nPubs : ~PublisherFailed(i))
                    => (runPc = "Done" /\ runResult = RetNil))

\* The context was cancelled, the first publisher returned an error, a later
\* one returned nil, and Run returned nil.
C40_Witness ==
    /\ cancelled
    /\ runPc = "Done"
    /\ runResult = RetNil
    /\ nPubs >= 2
    /\ PublisherFailed(1)
    /\ \A i \in 1 .. nPubs : PublisherCalled(i)
    /\ ~PublisherFailed(nPubs)

\* C24: a response that carries an error object makes Summarize return an
\* error at once: callAPI has been invoked once and is not invoked again.
APIErrorResponse == apiErr = ErrAPIError

C24_APIErrorNotRetried ==
    /\ [](APIErrorResponse => /\ sPc = "idle"
                              /\ sumOutcome = "err"
                              /\ digest = NoDigest)
    /\ [][APIErrorResponse => apiCalls' = apiCalls]_vars

\* What retryWithBackoff does with an error object: callAPI is invoked
\* SummarizerMaxRetries + 1 times before Summarize returns the error.
APIErrorRetried ==
    /\ runResult = RunSummarizeFailed(RetExhausted(SummarizerMaxRetries + 1, ErrAPIError))
    /\ apiCalls = SummarizerMaxRetries + 1

\* Every error of callAPI but that of the last allowed call is followed by a
\* wait and another call.
EveryAPIErrorRetried ==
    (apiErr # NilErr /\ sPc = "idle")
    => \/ runResult = RunSummarizeFailed(RetCtxErr)
       \/ /\ apiCalls = SummarizerMaxRetries + 1
          /\ runResult = RunSummarizeFailed(RetExhausted(SummarizerMaxRetries + 1, apiErr))

\* A parse failure ends Summarize and the run: once Run has returned the
\* parse error, callAPI and Summarize are not invoked again, and the call that
\* returned the malformed text was the only one of its retry loop to return.
ParseFailed ==
    /\ runResult.kind = "runner: summarize failed"
    /\ runResult.cause.kind = "anthropic: failed to parse LLM JSON"

ParseFailureNotRetried ==
    /\ [](ParseFailed => /\ runPc = "Failed"
                         /\ digest = NoDigest
                         /\ sumCalls = 1
                         /\ apiCalls = sAttempt + 1)
    /\ [][ParseFailed => (apiCalls' = apiCalls /\ sumCalls' = sumCalls)]_vars

ParseFailureAfterRetries ==
    ParseFailed /\ apiCalls = 2

(***************************************************************************)
(* batchEmbeds.  An embed is modelled by the lengths of its texts: Title,  *)
(* Description, Fields (each a Name and a Value) and Footer (NoFooter for  *)
(* a nil footer).                                                          *)
(***************************************************************************)
NoFooter == -1

\* max 10 embeds per message, max 6000 total characters per message
MaxEmbedsPerMessage == 10
MaxCharsPerMessage == 6000

RECURSIVE FieldsCharCount(_)
FieldsCharCount(fields) ==
    IF fields = <<>> THEN 0
    ELSE Head(fields).Name + Head(fields).Value + FieldsCharCount(Tail(fields))

embedCharCount(e) ==
    e.Title + e.Description + FieldsCharCount(e.Fields)
        + (IF e.Footer # NoFooter THEN e.Footer ELSE 0)

\* A faulty variant of FlushNeeded that closes a batch one embed too late.
FlushNeededOffByOne(current, currentChars, ec) ==
    Len(current) > 0
        /\ (Len(current) > MaxEmbedsPerMessage \/ currentChars + ec > MaxCharsPerMessage)

\* A faulty variant of FlushNeeded that closes a batch that is exactly full.
FlushNeededAtCap(current, currentChars, ec) ==
    Len(current) > 0
        /\ (Len(current) >= MaxEmbedsPerMessage \/ currentChars + ec >= MaxCharsPerMessage)

\* if len(current) > 0 && (len(current) >= 10 || currentChars+ec > 6000)
FlushNeeded(current, currentChars, ec) ==
    Len(current) > 0
        /\ (Len(current) >= MaxEmbedsPerMessage \/ currentChars + ec > MaxCharsPerMessage)

\* A faulty variant of FinalBatches that forgets the batch still open.
FinalBatchesDropped(acc, current) == acc

\* if len(current) > 0 { batches = append(batches, current) }
FinalBatches(acc, current) ==
    IF Len(current) > 0 THEN Append(acc, current) ELSE acc

\* The loop over embeds from position k on, and the final append.
RECURSIVE BatchLoop(_, _, _, _, _)
BatchLoop(es, k, acc, current, currentChars) ==
    IF k > Len(es)
    THEN FinalBatches(acc, current)
    ELSE LET e == es[k]
             ec == embedCharCount(e)
         IN IF FlushNeeded(current, currentChars, ec)
            THEN BatchLoop(es, k + 1, Append(acc, current), <<e>>, ec)
            ELSE BatchLoop(es, k + 1, acc, Append(current, e), currentChars + ec)

batchEmbeds(es) == BatchLoop(es, 1, <<>>, <<>>, 0)

\* The embeds tried: {Title: "T"}, {Description: 2000 characters}, and the
\* embed of a summary whose every text is exactly at its cap (7434 bytes).
\* URL, which embedCharCount does not count, tells the embeds of a list apart.
LightEmbed ==
    [Title |-> 1, URL |-> 0, Description |-> 0, Fields |-> <<>>, Footer |-> NoFooter]
MediumEmbed ==
    [Title |-> 0, URL |-> 0, Description |-> 2000, Fields |-> <<>>, Footer |-> NoFooter]
HeavyEmbed ==
    [Title |-> 256, URL |-> 0, Description |-> 4096,
     Fields |-> <<[Name |-> 10, Value |-> 1024]>>, Footer |-> 2048]

EmbedKinds == {LightEmbed, MediumEmbed, HeavyEmbed}

KindOf(e) == [e EXCEPT !.URL = 0]

NotLight(es) == Cardinality({i \in 1 .. Len(es) : KindOf(es[i]) # LightEmbed})

BatchInit ==
    /\ LinksIdle
    /\ TruncateIdle
    /\ SuspendIdle
    /\ RetryIdle
    /\ DelayIdle
    /\ DiscordIdle
    /\ FetchIdle
    /\ ClassifyIdle
    /\ cancelled = FALSE
    /\ RunIdle
    /\ ParseIdle
    /\ embeds = <<>>
    /\ batchPc = "build"
    /\ batches = <<>>

\* The caller appends an embed to the list it builds (at most MaxEmbeds
\* embeds, at most MaxHeavy of them not light).
AddEmbed ==
    /\ batchPc = "build"
    /\ Len(embeds) < MaxEmbeds
    /\ \E e \in EmbedKinds :
        /\ (e # LightEmbed => NotLight(embeds) < MaxHeavy)
        /\ embeds' = Append(embeds, [e EXCEPT !.URL = Len(embeds) + 1])
    /\ UNCHANGED <<batchPc, batches, nonBatchVars>>

\* batches := batchEmbeds(embeds)
BatchEmbeds ==
    /\ batchPc = "build"
    /\ batches' = batchEmbeds(embeds)
    /\ batchPc' = "done"
    /\ UNCHANGED <<embeds, nonBatchVars>>

BatchNext ==
    \/ AddEmbed
    \/ BatchEmbeds

SpecBatch == BatchInit /\ [][BatchNext]_vars

(***************************************************************************)
(* Claims about batchEmbeds (checked under SpecBatch).                     *)
(***************************************************************************)
RECURSIVE BatchChars(_)
BatchChars(batch) ==
    IF batch = <<>> THEN 0
    ELSE embedCharCount(Head(batch)) + BatchChars(Tail(batch))

\* C10: every batch returned holds at least 1 and at most 10 embeds; its
\* total character count is at most 6000 unless it consists of one embed that
\* alone counts more than 6000; an embed that counts more than 6000 is alone
\* in its batch.
C10_BatchesWithinCaps ==
    batchPc = "done"
    => \A b \in 1 .. Len(batches) :
          /\ Len(batches[b]) >= 1
          /\ Len(batches[b]) <= 10
          /\ \/ BatchChars(batches[b]) <= 6000
             \/ Len(batches[b]) = 1 /\ embedCharCount(batches[b][1]) > 6000
          /\ \A i \in 1 .. Len(batches[b]) :
                embedCharCount(batches[b][i]) > 6000 => Len(batches[b]) = 1

\* One result with a batch closed by the count cap, a batch closed by the
\* character cap, and an over-weight embed alone in its batch.
C10_Witness ==
    /\ batchPc = "done"
    /\ \E b \in 1 .. Len(batches) : Len(batches[b]) = 10
    /\ \E b \in 1 .. Len(batches) :
          /\ Len(batches[b]) = 1
          /\ embedCharCount(batches[b][1]) > 6000
    /\ \E b \in 1 .. (Len(batches) - 1) :
          /\ Len(batches[b]) < 10
          /\ BatchChars(batches[b]) <= 6000
          /\ BatchChars(batches[b]) + embedCharCount(batches[b + 1][1]) > 6000

RECURSIVE Flatten(_)
Flatten(bs) == IF bs = <<>> THEN <<>> ELSE Head(bs) \o Flatten(Tail(bs))

\* C11: the batches returned, concatenated in order, are the input list: no
\* embed is dropped, duplicated or moved; an empty input gives no batch.
C11_BatchesConcatToInput ==
    batchPc = "done"
    => /\ Flatten(batches) = embeds
       /\ embeds = <<>> => batches = <<>>

\* An input that is split into three batches or more.
C11_Witness ==
    /\ batchPc = "done"
    /\ Len(batches) >= 3
    /\ Len(embeds) = MaxEmbeds
    /\ Flatten(batches) = embeds

\* The last j for which es[k..j] is a batch the caps allow (at most 10
\* embeds, and at most 6000 characters unless it is the single embed es[k]),
\* given that es[k..j] is one and has `chars` characters.
RECURSIVE LastAllowed(_, _, _, _)
LastAllowed(es, k, j, chars) ==
    IF /\ j < Len(es)
       /\ (j + 1) - k + 1 <= 10
       /\ chars + embedCharCount(es[j + 1]) <= 6000
    THEN LastAllowed(es, k, j + 1, chars + embedCharCount(es[j + 1]))
    ELSE j

SetMin(S) == CHOOSE x \in S : \A y \in S : x <= y

\* t[k] = the fewest allowed batches that es[k..Len(es)] can be cut into,
\* filled in from k down to 1 (t[Len(es) + 1] = 0): the first batch is any
\* es[k..j] that is allowed.
RECURSIVE FewestTable(_, _, _)
FewestTable(es, k, t) ==
    IF k = 0 THEN t
    ELSE FewestTable(es, k - 1,
            [t EXCEPT ![k] =
                1 + SetMin({t[j + 1] :
                            j \in k .. LastAllowed(es, k, k, embedCharCount(es[k]))})])

FewestBatches(es) ==
    FewestTable(es, Len(es), [k \in 1 .. (Len(es) + 1) |-> 0])[1]

BatchSizes(bs) == [b \in 1 .. Len(bs) |-> Len(bs[b])]

\* C12: no cut of the input into contiguous batches allowed by the caps has
\* fewer batches than batchEmbeds returns; 12 embeds of 1 character are
\* batched as [10, 2] and 4 embeds of 2000 characters as [3, 1].
C12_FewestBatches ==
    batchPc = "done"
    => /\ Len(batches) = FewestBatches(embeds)
       /\ (Len(embeds) = 12 /\ \A i \in 1 .. 12 : embedCharCount(embeds[i]) = 1)
             => BatchSizes(batches) = <<10, 2>>
       /\ (Len(embeds) = 4 /\ \A i \in 1 .. 4 : embedCharCount(embeds[i]) = 2000)
             => BatchSizes(batches) = <<3, 1>>

\* Three embeds of 2000 characters fill one batch exactly, then light ones.
C12_Witness ==
    /\ batchPc = "done"
    /\ Len(embeds) >= 4
    /\ \A i \in 1 .. 3 : embedCharCount(embeds[i]) = 2000
    /\ \A i \in 4 .. Len(embeds) : embedCharCount(embeds[i]) = 1
    /\ BatchSizes(batches) = <<3, Len(embeds) - 3>>

(***************************************************************************)
(* DiscordPublisher.Publish: the batches are sent in order, each through   *)
(* retry.WithBackoff, with a 500 ms pause between two batches.             *)
(***************************************************************************)
\* NewDiscordPublisher's retryConfig (BaseDelay in seconds), and the zero
\* Config of a DiscordPublisher built as a struct literal.
NewDiscordRetryConfig == [MaxRetries |-> 3, BaseDelay |-> 1]
ZeroRetryConfig == [MaxRetries |-> 0, BaseDelay |-> 0]

\* With ctx cancelled, client.Do fails with "context canceled".
ErrCanceled == [text |-> {"context canceled"}]

\* The status codes the webhook answers with.
WebhookStatuses == {204, 304, 400, 429, 500}

\* return statusCode >= 500 || statusCode == http.StatusTooManyRequests
HTTPStatusRetryable(statusCode) == statusCode >= 500 \/ statusCode = 429

\* What sendWebhook returns for a response with this status: both checks of
\* the status return the same "unexpected status %d", nil is left for 2xx.
sendWebhook(status) ==
    IF ~HTTPStatusRetryable(status) /\ (status < 200 \/ status >= 300)
    THEN ErrUnexpectedStatus(status)
    ELSE IF status < 200 \/ status >= 300
    THEN ErrUnexpectedStatus(status)
    ELSE NilErr

SendOutcomes == {sendWebhook(status) : status \in WebhookStatuses}

\* The statuses the webhook may answer with after the POSTs ps of a call:
\* within one call its non-2xx responses all carry the same status.
NextStatuses(ps) ==
    {st \in WebhookStatuses :
        \/ st \in 200 .. 299
        \/ \A p \in 1 .. Len(ps) : ps[p].status \in (200 .. 299) \cup {st}}

\* What Publish returns.
PublishBatchFailed(k, cause) == [kind |-> "discord: failed to send batch", batch |-> k, cause |-> cause]

\* A faulty variant of BatchSendFailed that goes on after a failed batch.
BatchSendErrorIgnored(err) == FALSE

\* if err != nil { return fmt.Errorf("discord: failed to send batch %d: %w", i+1, err) }
BatchSendFailed(err) == err # RetNil

\* A string is the sequence of its bytes, as len and the slice expressions
\* of the source count them.  "\u2026" is three bytes in UTF-8.
Ellipsis == <<"e2", "80", "a6">>

SentenceMarks == {".", "!", "?"}

\* strings.LastIndexAny(s, chars): the index (from 0) of the last byte of s
\* that is in chars, -1 without one.
LastIndexAny(s, chars) ==
    LET hits == {i \in 1 .. Len(s) : s[i] \in chars}
    IN  IF hits = {} THEN -1
        ELSE (CHOOSE i \in hits : \A j \in hits : j <= i) - 1

\* A faulty variant of AtSentenceBoundary: any mark of the cut is taken.
AtAnySentenceMark(idx, max) == idx >= 0

\* if idx := strings.LastIndexAny(cut, ".!?"); idx > max/2
AtSentenceBoundary(idx, max) == idx > max \div 2

\* A faulty variant of HardCut: the ellipsis replaces the last byte kept.
HardCutWithinMax(cut) == SubSeq(cut, 1, Len(cut) - 3) \o Ellipsis

\* return cut + "\u2026"
HardCut(cut) == cut \o Ellipsis

truncate(s, max) ==
    IF Len(s) <= max THEN s
    ELSE LET cut == SubSeq(s, 1, max - 1)
             idx == LastIndexAny(cut, SentenceMarks)
         IN  IF AtSentenceBoundary(idx, max)
             THEN SubSeq(cut, 1, idx + 1)
             ELSE HardCut(cut)

\* A text of n bytes without a sentence mark.
Plain(n) == [i \in 1 .. n |-> "a"]

\* An embed is modelled by the lengths of its texts, which is all that
\* embedCharCount and batchEmbeds read.  A digest holds Topics (the topics
\* string), Overview, and for each summary Title ("%d. %s"), Summary,
\* KeyPoints (the formatted list, empty without key points) and Footer
\* (authors and category joined, empty without either).  "Daily Feed: " has
\* 12 bytes, the date of the footer 10, "Key Points" 10.
OverviewEmbed(dg) ==
    [Title |-> 12 + Len(dg.Topics), URL |-> 0,
     Description |-> Len(truncate(dg.Overview, 4096)),
     Fields |-> <<>>, Footer |-> 10]

PaperEmbed(i, ps) ==
    [Title |-> Len(truncate(ps.Title, 256)), URL |-> i,
     Description |-> Len(truncate(ps.Summary, 4096)),
     Fields |-> IF Len(ps.KeyPoints) > 0
                THEN <<[Name |-> 10, Value |-> Len(truncate(ps.KeyPoints, 1024))]>>
                ELSE <<>>,
     Footer |-> IF Len(ps.Footer) > 0
                THEN Len(truncate(ps.Footer, 2048)) ELSE NoFooter]

buildEmbeds(dg) ==
    <<OverviewEmbed(dg)>>
        \o [i \in 1 .. Len(dg.Summaries) |-> PaperEmbed(i, dg.Summaries[i])]

\* The digests published: an overview and up to 3 * MaxBatches - 1 summaries
\* that make embeds of 2000 characters each, or an overview and fewer than
\* MaxBatches summaries whose texts all exceed what buildEmbeds keeps.
ShortSummary ==
    [Title |-> Plain(20), Summary |-> Plain(1980), KeyPoints |-> <<>>, Footer |-> <<>>]
LongSummary ==
    [Title |-> Plain(300), Summary |-> Plain(5000), KeyPoints |-> Plain(1100),
     Footer |-> Plain(2100)]

DigestOf(n, ps) ==
    [Topics |-> Plain(8), Overview |-> Plain(1970), Summaries |-> [i \in 1 .. n |-> ps]]

PublishedDigests ==
    {DigestOf(n, ShortSummary) : n \in 0 .. (3 * MaxBatches - 1)}
        \cup {DigestOf(n, LongSummary) : n \in 1 .. (MaxBatches - 1)}

DiscordInit ==
    /\ LinksIdle
    /\ TruncateIdle
    /\ SuspendIdle
    /\ RetryIdle
    /\ DelayIdle
    /\ FetchIdle
    /\ ClassifyIdle
    /\ RunIdle
    /\ ParseIdle
    /\ BatchIdle
    /\ cancelled = FALSE
    /\ retryConfig \in {NewDiscordRetryConfig, ZeroRetryConfig}
    /\ \E d \in PublishedDigests : pubBatches = batchEmbeds(buildEmbeds(d))
    /\ batchIdx = 0
    /\ sendAttempt = 0
    /\ pubPc = "call"
    /\ posts = <<>>
    /\ batchDelays = <<>>
    /\ publishResult = NoResult

\* time.After(500 * time.Millisecond)
InterBatchDelayMs == 500

\* A faulty variant of DelayNeeded that also pauses after the last batch.
DelayNeededAfterEveryBatch(i, n) == i < n

\* if i < len(batches)-1
DelayNeeded(i, n) == i < n - 1

\* Publish once WithBackoff has returned werr for batch i: the error return,
\* the pause before the next batch, or the end of the loop.  A pause is
\* recorded with the batch it follows and the number of POSTs made so far.
AfterBatch(werr) ==
    IF BatchSendFailed(werr)
    THEN /\ pubPc' = "done"
         /\ publishResult' = PublishBatchFailed(batchIdx + 1, werr)
         /\ UNCHANGED <<batchIdx, sendAttempt, batchDelays>>
    ELSE IF DelayNeeded(batchIdx, Len(pubBatches))
    THEN /\ pubPc' = "delay"
         /\ batchDelays' = Append(batchDelays,
                [after |-> batchIdx + 1, at |-> Len(posts'), ms |-> InterBatchDelayMs])
         /\ UNCHANGED <<batchIdx, sendAttempt, publishResult>>
    ELSE /\ pubPc' = "done"
         /\ publishResult' = RetNil
         /\ UNCHANGED <<batchIdx, sendAttempt, batchDelays>>

\* One iteration of WithBackoff's loop: sendWebhook posts the current batch
\* and gets a response with some status (0: client.Do failed, no response).
SendWebhook ==
    /\ pubPc = "call"
    /\ \E status \in (IF cancelled THEN {0} ELSE NextStatuses(posts)) :
        LET err == IF status = 0 THEN ErrCanceled ELSE sendWebhook(status)
            branch == AttemptBranch(retryConfig, sendAttempt, err) IN
        /\ posts' = Append(posts, [batch |-> batchIdx + 1, status |-> status, err |-> err])
        /\ \/ /\ branch = "success"
              /\ AfterBatch(RetNil)
           \/ /\ branch = "non-retryable"
              /\ AfterBatch(RetNonRetryable(err))
           \/ /\ branch = "exhausted"
              /\ AfterBatch(RetExhausted(retryConfig.MaxRetries + 1, err))
           \/ /\ branch = "backoff"
              /\ IF JitterPanics(retryConfig)
                 THEN /\ pubPc' = "done"
                      /\ publishResult' = Panicked
                 ELSE /\ pubPc' = "wait"
                      /\ UNCHANGED publishResult
              /\ UNCHANGED <<batchIdx, sendAttempt, batchDelays>>
    /\ UNCHANGED <<retryConfig, pubBatches, cancelled, nonDiscordVars>>

\* case <-time.After(delay): the next attempt for the same batch.
SendBackoffElapsed ==
    /\ pubPc = "wait"
    /\ ~cancelled
    /\ sendAttempt' = sendAttempt + 1
    /\ pubPc' = "call"
    /\ UNCHANGED <<retryConfig, pubBatches, batchIdx, posts, batchDelays, publishResult,
                   cancelled, nonDiscordVars>>

\* case <-ctx.Done() inside WithBackoff: it returns ctx.Err().
SendBackoffCancelled ==
    /\ pubPc = "wait"
    /\ cancelled
    /\ UNCHANGED <<retryConfig, pubBatches, posts, cancelled, nonDiscordVars>>
    /\ AfterBatch(RetCtxErr)

\* A faulty variant of FirstAttempt: one attempt counter for all batches.
AttemptCarriedOver(att) == att

\* retry.WithBackoff is called anew for each batch: for attempt := 0; ...
FirstAttempt(att) == 0

\* case <-time.After(500 * time.Millisecond): on to the next batch.
BatchDelayElapsed ==
    /\ pubPc = "delay"
    /\ ~cancelled
    /\ batchIdx' = batchIdx + 1
    /\ sendAttempt' = FirstAttempt(sendAttempt)
    /\ pubPc' = "call"
    /\ UNCHANGED <<retryConfig, pubBatches, posts, batchDelays, publishResult, cancelled,
                   nonDiscordVars>>

\* case <-ctx.Done() between two batches: Publish returns ctx.Err().
BatchDelayCancelled ==
    /\ pubPc = "delay"
    /\ cancelled
    /\ pubPc' = "done"
    /\ publishResult' = RetCtxErr
    /\ UNCHANGED <<retryConfig, pubBatches, batchIdx, sendAttempt, posts, batchDelays,
                   cancelled, nonDiscordVars>>

DiscordCancel ==
    /\ pubPc \in {"call", "wait", "delay"}
    /\ ~cancelled
    /\ cancelled' = TRUE
    /\ UNCHANGED <<discordVars, nonDiscordVars>>

DiscordNext ==
    \/ SendWebhook
    \/ SendBackoffElapsed
    \/ SendBackoffCancelled
    \/ BatchDelayElapsed
    \/ BatchDelayCancelled
    \/ DiscordCancel

SpecDiscord == DiscordInit /\ [][DiscordNext]_vars

Delivered(k) == \E p \in 1 .. Len(posts) : posts[p].batch = k /\ posts[p].err = NilErr

\* The POSTs are made batch by batch: the first is for batch 1, and each next
\* one is for the same batch after a failure or the next batch after a success.
PostsInOrder ==
    /\ posts # <<>> => posts[1].batch = 1
    /\ \A p \in 1 .. (Len(posts) - 1) :
        \/ posts[p].err # NilErr /\ posts[p + 1].batch = posts[p].batch
        \/ posts[p].err = NilErr /\ posts[p + 1].batch = posts[p].batch + 1

\* Sending batch k has finally failed: WithBackoff gave up on it.
FinallyFailed(k) ==
    /\ pubPc = "done"
    /\ posts # <<>>
    /\ posts[Len(posts)].batch = k
    /\ ~Delivered(k)

\* C13: the batches are posted in order, each at most MaxRetries + 1 times by
\* one WithBackoff call; when batch k finally fails Publish returns an error
\* for batch k, no batch after k was or will be posted, and batches 1..k-1
\* were delivered.
C13_FailFastInOrder ==
    /\ [](/\ PostsInOrder
          /\ \A k \in 1 .. Len(pubBatches) :
                /\ Cardinality({p \in 1 .. Len(posts) : posts[p].batch = k})
                      <= retryConfig.MaxRetries + 1
                /\ FinallyFailed(k)
                      => /\ publishResult.kind = "discord: failed to send batch"
                         /\ publishResult.batch = k
                         /\ \A p \in 1 .. Len(posts) : posts[p].batch <= k
                         /\ \A j \in 1 .. (k - 1) : Delivered(j))
    /\ [][pubPc = "done" => posts' = posts]_vars

\* Batch 2 of 3 fails after batch 1 was delivered and batch 2 retried.
C13_Witness ==
    /\ Len(pubBatches) = 3
    /\ FinallyFailed(2)
    /\ Delivered(1)
    /\ Len(posts) = 5
    /\ publishResult = PublishBatchFailed(2, RetExhausted(4, ErrStatus500))

\* C30: the d-th delay of a Publish call lasts 500 ms, is entered right after
\* the POST that delivered batch d, and d is not the last batch; the POST
\* after it, if any, is the first of batch d + 1, and the first POST of every
\* batch but the first comes right after such a delay; a Publish call that
\* delivered all n batches made n - 1 delays.  When the context is cancelled
\* during a delay, the next step of Publish is to return ctx.Err() without a
\* POST, and no POST follows.
C30_OneDelayBetweenBatches ==
    /\ [](/\ \A d \in 1 .. Len(batchDelays) :
                /\ batchDelays[d].ms = 500
                /\ batchDelays[d].after = d
                /\ d < Len(pubBatches)
                /\ batchDelays[d].at \in 1 .. Len(posts)
                /\ posts[batchDelays[d].at].batch = d
                /\ posts[batchDelays[d].at].err = NilErr
                /\ Len(posts) > batchDelays[d].at
                      => posts[batchDelays[d].at + 1].batch = d + 1
          /\ \A p \in 1 .. (Len(posts) - 1) :
                posts[p + 1].batch # posts[p].batch
                    => \E d \in 1 .. Len(batchDelays) : batchDelays[d].at = p
          /\ (pubPc = "done" /\ publishResult = RetNil)
                => Len(batchDelays) = Len(pubBatches) - 1)
    /\ [][(pubPc = "delay" /\ cancelled)
            => (pubPc' = "done" /\ publishResult' = RetCtxErr /\ posts' = posts)]_vars
    /\ [][publishResult = RetCtxErr => posts' = posts]_vars

\* Three batches: the first two were delivered, each followed by a delay,
\* and the context was cancelled during the second delay.
C30_Witness ==
    /\ Len(pubBatches) = 3
    /\ pubPc = "done"
    /\ publishResult = RetCtxErr
    /\ Len(batchDelays) = 2
    /\ Len(posts) >= 2
    /\ posts[Len(posts)].batch = 2
    /\ posts[Len(posts)].err = NilErr
    /\ batchDelays[2].at = Len(posts)

\* Three batches delivered with two delays, Publish returned nil.
AllBatchesSentWithDelays ==
    /\ Len(pubBatches) = 3
    /\ pubPc = "done"
    /\ publishResult = RetNil
    /\ Len(batchDelays) = 2
    /\ Len(posts) > 3

\* The webhook message of POST p.
Message(p) == pubBatches[posts[p].batch]

\* C26: every webhook message Publish sends holds at most 10 embeds and at
\* most 6000 characters over the titles, descriptions, fields and footers of
\* its embeds.
C26_MessagesWithinCaps ==
    \A p \in 1 .. Len(posts) :
        /\ Len(Message(p)) <= 10
        /\ BatchChars(Message(p)) <= 6000

\* What holds of every message: at most 10 embeds, and at most 6000
\* characters unless it is one embed that alone counts more.
MessagesWithinCapsUnlessOversizedEmbed ==
    \A p \in 1 .. Len(posts) :
        /\ Len(Message(p)) <= 10
        /\ \/ BatchChars(Message(p)) <= 6000
           \/ Len(Message(p)) = 1 /\ embedCharCount(Message(p)[1]) > 6000

\* A message of 7442 bytes is posted: the embed of one summary whose title,
\* summary, key points and footer are all cut by truncate (each to the
\* first max - 1 bytes and the three bytes of the ellipsis).
OversizedMessagePosted ==
    \E p \in 1 .. Len(posts) : BatchChars(Message(p)) = 258 + 4098 + 10 + 1026 + 2050

\* The embeds buildEmbeds made for this call.
BuiltEmbeds ==
    UNION {{pubBatches[b][k] : k \in 1 .. Len(pubBatches[b])} : b \in 1 .. Len(pubBatches)}

\* C37: every text slot of every embed that buildEmbeds makes counts at most
\* its cap: title 256, description 4096, key-points value 1024, footer 2048.
C37_SlotsWithinCaps ==
    \A e \in BuiltEmbeds :
        /\ e.Title <= 256
        /\ e.Description <= 4096
        /\ \A f \in 1 .. Len(e.Fields) : e.Fields[f].Value <= 1024
        /\ e.Footer # NoFooter => e.Footer <= 2048

\* What truncate guarantees for the slots it fills: the cap and the two
\* bytes by which the ellipsis exceeds the byte it replaces.  The title of
\* the overview embed is not passed to truncate.
SlotsWithinCapsPlusEllipsis ==
    \A e \in BuiltEmbeds :
        /\ e.URL # 0 => e.Title <= 256 + 2
        /\ e.Description <= 4096 + 2
        /\ \A f \in 1 .. Len(e.Fields) : e.Fields[f].Value <= 1024 + 2
        /\ e.Footer # NoFooter => e.Footer <= 2048 + 2

\* A summary of 5000 bytes without a sentence mark fills a description of
\* 4098 bytes, and the embed was posted.
DescriptionOverCapPosted ==
    \E p \in 1 .. Len(posts) :
        \E k \in 1 .. Len(Message(p)) : Message(p)[k].Description = 4098

\* The number of POSTs made for batch k.
Attempts(k) == Cardinality({p \in 1 .. Len(posts) : posts[p].batch = k})

\* C38: the attempt counter counts the POSTs of the current batch alone, so
\* every batch is attempted at most MaxRetries + 1 times whatever the
\* batches before it consumed.
C38_FreshBudgetPerBatch ==
    /\ \A k \in 1 .. Len(pubBatches) : Attempts(k) <= retryConfig.MaxRetries + 1
    /\ pubPc = "call" => sendAttempt = Attempts(batchIdx + 1)
    /\ pubPc = "wait" => sendAttempt + 1 = Attempts(batchIdx + 1)

\* The first batch was delivered by its last attempt, and the second batch
\* was attempted MaxRetries + 1 times as well.
C38_Witness ==
    /\ retryConfig.MaxRetries = 3
    /\ Len(pubBatches) >= 2
    /\ Attempts(1) = 4
    /\ Delivered(1)
    /\ Attempts(2) = 4

\* Post p got a response whose status is not 2xx.
FailedStatus(p) == posts[p].status # 0 /\ posts[p].status \notin 200 .. 299

\* Post p was retried: the next POST is for the same batch.
Retried(p) == p < Len(posts) /\ posts[p + 1].batch = posts[p].batch

\* C33: a non-2xx response is retried only if its status is 429 or at least
\* 500; any other non-2xx status ends Publish with the failure of the batch
\* and no further POST; a 429 or 5xx response is retried whenever Publish
\* goes on to another POST.
C33_StatusDecidesRetry ==
    \A p \in 1 .. Len(posts) :
        FailedStatus(p) =>
            IF posts[p].status >= 500 \/ posts[p].status = 429
            THEN p < Len(posts) => Retried(p)
            ELSE /\ p = Len(posts)
                 /\ pubPc = "done"
                 /\ publishResult \notin {NoResult, RetNil}

\* What the code does: WithBackoff decides by the text of the error, so a 4xx
\* status other than 429 ends Publish at once, and every other non-2xx
\* status, 3xx included, is retried while attempts remain and the context
\* is not cancelled.
TextDecidesRetry ==
    \A p \in 1 .. Len(posts) :
        FailedStatus(p) =>
            IF posts[p].status \in 400 .. 499 /\ posts[p].status # 429
            THEN /\ p = Len(posts)
                 /\ pubPc = "done"
                 /\ publishResult = PublishBatchFailed(posts[p].batch, RetNonRetryable(posts[p].err))
            ELSE /\ p < Len(posts) => Retried(p)
                 /\ (p = Len(posts) /\ pubPc = "done")
                        => \/ publishResult = Panicked
                           \/ publishResult = PublishBatchFailed(posts[p].batch, RetCtxErr)
                           \/ publishResult = PublishBatchFailed(posts[p].batch,
                                    RetExhausted(retryConfig.MaxRetries + 1, posts[p].err))

\* The webhook answered 304 to the first POST of a batch and Publish posted
\* the batch again.
RedirectStatusRetried ==
    \E p \in 1 .. Len(posts) : posts[p].status = 304 /\ Retried(p)

(***************************************************************************)
(* ArxivFetcher: Fetch and FetchMultiple, each retrying its internal fetch *)
(* with retryWithBackoff (no error classification, no jitter).             *)
(***************************************************************************)
FetcherMaxRetries == 3

TopicNames == <<"quantum computing", "artificial intelligence", "robotics">>

\* The responses of the source: no response at all (client.Do failed), a
\* non-200 status, a 200 whose body is not XML, or a 200 with a feed.  An
\* entry is [Title, Published]; Published = 0 is the zero time that
\* time.Parse leaves behind for an unparsable date.
NoResponse == [status |-> 0, wellFormed |-> FALSE, feed |-> <<>>]
StatusResponse(code) == [status |-> code, wellFormed |-> FALSE, feed |-> <<>>]
MalformedResponse == [status |-> 200, wellFormed |-> FALSE, feed |-> <<>>]
FeedResponse(f) == [status |-> 200, wellFormed |-> TRUE, feed |-> f]

Feeds ==
    UNION {{[i \in 1 .. n |-> [Title |-> i, Published |-> st[i]]] :
                st \in [1 .. n -> 0 .. MaxStamp]} : n \in 0 .. MaxFeed}

FetchResponses ==
    {StatusResponse(500), StatusResponse(400), StatusResponse(429), MalformedResponse}
        \cup {FeedResponse(f) : f \in Feeds}

ErrRequestFailed == [text |-> {"request failed"}]
ErrMalformedXML == [text |-> {"failed to parse xml"}]

\* "arxiv: operation failed after %d attempts: %w"
FetchExhausted(n, err) == [kind |-> "arxiv: operation failed after attempts", attempts |-> n, cause |-> err]

\* search_query and max_results of fetchInternal's request.
SingleRequest(topic, n) ==
    [search_query |-> [op |-> "all", quoted |-> FALSE, terms |-> <<topic>>], max_results |-> n]

\* A faulty variant of MultiRequest that asks for the first topic alone.
FirstTopicRequest(ts, n) ==
    [search_query |-> [op |-> "all", quoted |-> FALSE, terms |-> <<ts[1]>>], max_results |-> n]

\* search_query and max_results of fetchMultipleInternal's request.
MultiRequest(ts, n) ==
    [search_query |-> [op |-> "OR", quoted |-> TRUE, terms |-> ts], max_results |-> n * 2]

\* The error an internal fetch returns for a response, NilErr if none.
ResponseError(resp) ==
    IF resp.status = 0 THEN ErrRequestFailed
    ELSE IF resp.status # 200 THEN ErrUnexpectedStatus(resp.status)
    ELSE IF ~resp.wellFormed THEN ErrMalformedXML
    ELSE NilErr

\* A faulty variant of SortedOrders that leaves the feed order.
FeedOrder(ps) == {ps}

\* sort.Slice(papers, Published.After): every order of ps that is descending
\* by Published (the sort is not stable, so ties come out in any order).
RECURSIVE OrdersOf(_, _)
OrdersOf(ps, rest) ==
    IF rest = {} THEN {<<>>}
    ELSE UNION {{<<ps[i]>> \o t : t \in OrdersOf(ps, rest \ {i})} :
                    i \in {i \in rest : \A j \in rest : ps[i].Published >= ps[j].Published}}

SortedOrders(ps) == OrdersOf(ps, DOMAIN ps)

\* if len(papers) > maxResults { papers = papers[:maxResults] }
Truncated(ps, n) == IF Len(ps) > n THEN SubSeq(ps, 1, n) ELSE ps

\* The lists fetchInternal / fetchMultipleInternal can return for a feed.
fetchInternal(f) == {f}
fetchMultipleInternal(f, n) == {Truncated(o, n) : o \in SortedOrders(f)}

\* A faulty variant of FetchRoute without the shortcuts of FetchMultiple.
FetchRouteAlwaysCombined(entry, ts) == IF entry = "Fetch" THEN "single" ELSE "multi"

\* Which path a call takes: FetchMultiple returns at once for no topic and
\* calls Fetch for one topic.
FetchRoute(entry, ts) ==
    IF entry = "Fetch" THEN "single"
    ELSE IF Len(ts) = 0 THEN "empty"
    ELSE IF Len(ts) = 1 THEN "single"
    ELSE "multi"

FetchInit ==
    /\ LinksIdle
    /\ TruncateIdle
    /\ SuspendIdle
    /\ RetryIdle
    /\ DelayIdle
    /\ ClassifyIdle
    /\ RunIdle
    /\ ParseIdle
    /\ BatchIdle
    /\ DiscordIdle
    /\ cancelled = FALSE
    /\ fetchEntry \in {"Fetch", "FetchMultiple"}
    /\ \E n \in 0 .. MaxTopics :
        /\ fetchEntry = "Fetch" => n = 1
        /\ topics = SubSeq(TopicNames, 1, n)
    /\ maxResults \in 0 .. MaxBound
    /\ fetchPc = "start"
    /\ fetchPath = "none"
    /\ fetchAttempt = 0
    /\ requests = <<>>
    /\ lastResponse = NoResponse
    /\ fetchedPapers = <<>>
    /\ fetchErr = NoResult

\* The entry of Fetch / FetchMultiple, up to the call of retryWithBackoff.
FetchDispatch ==
    /\ fetchPc = "start"
    /\ LET route == FetchRoute(fetchEntry, topics) IN
        IF route = "empty"
        THEN /\ fetchPc' = "done"
             /\ fetchErr' = RetNil
             /\ UNCHANGED fetchPath
        ELSE /\ fetchPc' = "call"
             /\ fetchPath' = route
             /\ UNCHANGED fetchErr
    /\ UNCHANGED <<fetchEntry, topics, maxResults, fetchAttempt, requests, lastResponse,
                   fetchedPapers, cancelled, nonFetchVars>>

\* One iteration of retryWithBackoff: the internal fetch issues its request,
\* gets resp, and returns papers or an error.
FetchAttempt ==
    /\ fetchPc = "call"
    /\ \E resp \in (IF cancelled THEN {NoResponse} ELSE FetchResponses) :
        LET err == ResponseError(resp) IN
        /\ requests' = Append(requests,
                IF fetchPath = "single" THEN SingleRequest(topics[1], maxResults)
                ELSE MultiRequest(topics, maxResults))
        /\ lastResponse' = resp
        /\ IF err = NilErr
           THEN /\ fetchedPapers' \in
                    (IF fetchPath = "single" THEN fetchInternal(resp.feed)
                     ELSE fetchMultipleInternal(resp.feed, maxResults))
                /\ fetchPc' = "done"
                /\ fetchErr' = RetNil
           ELSE /\ fetchedPapers' = <<>>
                /\ IF fetchAttempt = FetcherMaxRetries
                   THEN /\ fetchPc' = "done"
                        /\ fetchErr' = FetchExhausted(FetcherMaxRetries + 1, err)
                   ELSE /\ fetchPc' = "wait"
                        /\ UNCHANGED fetchErr
    /\ UNCHANGED <<fetchEntry, topics, maxResults, fetchPath, fetchAttempt, cancelled,
                   nonFetchVars>>

\* case <-time.After(delay)
FetchBackoffElapsed ==
    /\ fetchPc = "wait"
    /\ ~cancelled
    /\ fetchAttempt' = fetchAttempt + 1
    /\ fetchPc' = "call"
    /\ UNCHANGED <<fetchEntry, topics, maxResults, fetchPath, requests, lastResponse,
                   fetchedPapers, fetchErr, cancelled, nonFetchVars>>

\* case <-ctx.Done(): return ctx.Err()
FetchBackoffCancelled ==
    /\ fetchPc = "wait"
    /\ cancelled
    /\ fetchPc' = "done"
    /\ fetchErr' = RetCtxErr
    /\ UNCHANGED <<fetchEntry, topics, maxResults, fetchPath, fetchAttempt, requests,
                   lastResponse, fetchedPapers, cancelled, nonFetchVars>>

FetchCancel ==
    /\ fetchPc \in {"call", "wait"}
    /\ ~cancelled
    /\ cancelled' = TRUE
    /\ UNCHANGED <<fetchVars, nonFetchVars>>

FetchNext ==
    \/ FetchDispatch
    \/ FetchAttempt
    \/ FetchBackoffElapsed
    \/ FetchBackoffCancelled
    \/ FetchCancel

SpecFetch == FetchInit /\ [][FetchNext]_vars

MultiTopicCall == fetchEntry = "FetchMultiple" /\ Len(topics) >= 2

FetchSucceeded == fetchPc = "done" /\ fetchErr = RetNil

Titles(ps) == {ps[i].Title : i \in 1 .. Len(ps)}

\* The entries of the response that are not in the list returned.
CutEntries == {e \in {lastResponse.feed[i] : i \in 1 .. Len(lastResponse.feed)} :
                    e.Title \notin Titles(fetchedPapers)}

\* C14: with two topics or more every attempt issues one request, for
\* 2 * maxResults results over the OR of all topics; the list returned has at
\* most maxResults papers, all of the response, newest first, and none of
\* them older than an entry that was cut.
C14_CombinedFetchSortedAndCut ==
    MultiTopicCall =>
        /\ \A r \in 1 .. Len(requests) :
            /\ requests[r].search_query.op = "OR"
            /\ requests[r].search_query.terms = topics
            /\ requests[r].max_results = 2 * maxResults
        /\ fetchPc = "call" => Len(requests) = fetchAttempt
        /\ fetchPc \in {"wait", "done"} => Len(requests) = fetchAttempt + 1
        /\ FetchSucceeded =>
            /\ Len(fetchedPapers) <= maxResults
            /\ \A i \in 1 .. Len(fetchedPapers) :
                /\ \E k \in 1 .. Len(lastResponse.feed) : lastResponse.feed[k] = fetchedPapers[i]
                /\ \A j \in (i + 1) .. Len(fetchedPapers) :
                    /\ fetchedPapers[i].Published >= fetchedPapers[j].Published
                    /\ fetchedPapers[i].Title # fetchedPapers[j].Title
                /\ \A e \in CutEntries : fetchedPapers[i].Published >= e.Published

\* The second attempt answers with more entries than asked for, oldest first;
\* the two newest are returned and the others cut.
C14_Witness ==
    /\ MultiTopicCall
    /\ FetchSucceeded
    /\ Len(requests) = 2
    /\ maxResults = 2
    /\ Len(lastResponse.feed) = MaxFeed
    /\ lastResponse.feed[1].Published < lastResponse.feed[MaxFeed].Published
    /\ Len(fetchedPapers) = 2
    /\ fetchedPapers[1].Published > fetchedPapers[2].Published
    /\ \E e \in CutEntries : e.Published < fetchedPapers[2].Published

\* C15: FetchMultiple with no topic returns an empty list and no error
\* without any request; with one topic it issues the requests of
\* Fetch(topic, maxResults), returns the response's papers as Fetch does
\* (feed order, not cut), and ends with the errors of Fetch.
C15_FetchMultipleShortcuts ==
    fetchEntry = "FetchMultiple" =>
        /\ (Len(topics) = 0 /\ fetchPc # "start")
              => /\ fetchPc = "done"
                 /\ fetchedPapers = <<>>
                 /\ fetchErr = RetNil
                 /\ requests = <<>>
        /\ Len(topics) = 1
              => /\ \A r \in 1 .. Len(requests) :
                        requests[r] =
                            [search_query |-> [op |-> "all", quoted |-> FALSE,
                                               terms |-> <<topics[1]>>],
                             max_results |-> maxResults]
                 /\ fetchPc = "call" => Len(requests) = fetchAttempt
                 /\ fetchPc \in {"wait", "done"} => Len(requests) = fetchAttempt + 1
                 /\ FetchSucceeded => fetchedPapers = lastResponse.feed
                 /\ (fetchPc = "done" /\ ~FetchSucceeded)
                       => /\ fetchedPapers = <<>>
                          /\ \/ fetchErr = RetCtxErr
                             \/ /\ fetchErr.kind = "arxiv: operation failed after attempts"
                                /\ fetchErr.attempts = 4
                                /\ Len(requests) = 4

\* FetchMultiple with one topic returned an unsorted response longer than
\* maxResults as it came.
C15_Witness ==
    /\ fetchEntry = "FetchMultiple"
    /\ Len(topics) = 1
    /\ FetchSucceeded
    /\ Len(requests) = 1
    /\ Len(fetchedPapers) >= 2
    /\ Len(fetchedPapers) > maxResults
    /\ fetchedPapers[1].Published < fetchedPapers[2].Published

\* C32: with two topics or more, every request of a call, retries included,
\* is the one combined request over all the topics; a failed attempt leaves
\* no papers behind, and the list returned holds only entries of the
\* response to the last request, the one attempt that succeeded.
C32_RetryRestartsCombinedFetch ==
    MultiTopicCall =>
        /\ \A r \in 1 .. Len(requests) :
            requests[r] = [search_query |-> [op |-> "OR", quoted |-> TRUE, terms |-> topics],
                           max_results |-> 2 * maxResults]
        /\ fetchPc = "wait" => fetchedPapers = <<>> /\ ResponseError(lastResponse) # NilErr
        /\ FetchSucceeded =>
            /\ Len(requests) = fetchAttempt + 1
            /\ ResponseError(lastResponse) = NilErr
            /\ \A i \in 1 .. Len(fetchedPapers) :
                \E k \in 1 .. Len(lastResponse.feed) : lastResponse.feed[k] = fetchedPapers[i]

\* A call with two topics failed twice and then returned the papers of its
\* third combined request.
C32_Witness ==
    /\ MultiTopicCall
    /\ FetchSucceeded
    /\ fetchAttempt = 2
    /\ Len(requests) = 3
    /\ Len(fetchedPapers) >= 1

\* The latest response is a 4xx status other than 429.
ClientFaultResponse ==
    /\ Len(requests) > 0
    /\ lastResponse.status \in 400 .. 499
    /\ lastResponse.status # 429

\* C22: a response with a 4xx status other than 429 is surfaced at once: the
\* call returns an error with that response, and no request is issued after it.
C22_ClientFaultNotRetried ==
    /\ [](ClientFaultResponse => /\ fetchPc = "done"
                               /\ fetchErr \notin {NoResult, RetNil})
    /\ [][ClientFaultResponse => requests' = requests]_vars

\* What retryWithBackoff does with a 4xx response: it waits and issues the
\* request again, up to FetcherMaxRetries times, as for any other error.
ClientFaultRetried ==
    /\ fetchPc = "done"
    /\ Len(requests) = FetcherMaxRetries + 1
    /\ lastResponse = StatusResponse(400)
    /\ fetchErr = FetchExhausted(FetcherMaxRetries + 1, ErrStatus400)

\* Every failed internal fetch but the last allowed is followed by a wait,
\* whatever its error.
EveryFetchErrorRetried ==
    (Len(requests) > 0 /\ ResponseError(lastResponse) # NilErr /\ fetchPc = "done")
    => \/ fetchErr = RetCtxErr
       \/ /\ Len(requests) = FetcherMaxRetries + 1
          /\ fetchErr = FetchExhausted(FetcherMaxRetries + 1, ResponseError(lastResponse))

\* The latest response is a 200 whose body is not XML.
MalformedFeedResponse ==
    /\ Len(requests) > 0
    /\ lastResponse = MalformedResponse

\* C23: a feed that does not parse is fatal for the call and not retried: the
\* call returns an error with that response, and no request is issued after it.
C23_MalformedFeedNotRetried ==
    /\ [](MalformedFeedResponse => /\ fetchPc = "done"
                                 /\ fetchErr \notin {NoResult, RetNil})
    /\ [][MalformedFeedResponse => requests' = requests]_vars

\* What retryWithBackoff does with a malformed feed: the request is issued
\* FetcherMaxRetries + 1 times.
MalformedFeedRetried ==
    /\ fetchPc = "done"
    /\ Len(requests) = FetcherMaxRetries + 1
    /\ lastResponse = MalformedResponse
    /\ fetchErr = FetchExhausted(FetcherMaxRetries + 1, ErrMalformedXML)

\* C28: a successful call on the single-topic path returns at most
\* maxResults papers, whatever feed the source answered with.
C28_SingleFetchWithinBound ==
    (FetchSucceeded /\ fetchPath = "single") => Len(fetchedPapers) <= maxResults

\* What the single-topic path returns: one paper for each entry of the feed,
\* in the feed's order.
SingleFetchReturnsWholeFeed ==
    (FetchSucceeded /\ fetchPath = "single") => fetchedPapers = lastResponse.feed

\* Fetch was asked for MaxBound papers and returned more.
SingleFetchAboveBound ==
    /\ FetchSucceeded
    /\ fetchEntry = "Fetch"
    /\ maxResults = MaxBound
    /\ Len(requests) = 1
    /\ requests[1].max_results = MaxBound
    /\ Len(fetchedPapers) > MaxBound

(***************************************************************************)
(* isRetryableError applied to every error text, told apart by the         *)
(* substrings it looks for.                                                *)
(***************************************************************************)
NetworkSignals ==
    {"timeout", "connection refused", "connection reset", "temporary failure", "network"}

StatusSignals == {"status 5", "status 429", "status 4"}

\* Every error: nil, or a text with any of the substrings ("status 429"
\* never comes without "status 4", which it contains).
ClassifiedErrors ==
    {NilErr} \cup
        {[text |-> t] : t \in {t \in SUBSET (NetworkSignals \cup StatusSignals) :
                                    "status 429" \in t => "status 4" \in t}}

ClassifyInit ==
    /\ LinksIdle
    /\ TruncateIdle
    /\ SuspendIdle
    /\ RetryIdle
    /\ DelayIdle
    /\ RunIdle
    /\ ParseIdle
    /\ BatchIdle
    /\ DiscordIdle
    /\ FetchIdle
    /\ cancelled = FALSE
    /\ classifyErr \in ClassifiedErrors
    /\ classifyPc = "call"
    /\ classified = FALSE

Classify ==
    /\ classifyPc = "call"
    /\ classified' = isRetryableError(classifyErr)
    /\ classifyPc' = "done"
    /\ UNCHANGED <<classifyErr, nonClassifyVars>>

ClassifyNext == Classify

SpecClassify == ClassifyInit /\ [][ClassifyNext]_vars

Signals(s) == classifyErr # NilErr /\ s \in classifyErr.text

SignalsNetwork == \E s \in NetworkSignals : Signals(s)

\* C16: a timeout, a connection refusal or reset, a temporary failure or a
\* network condition is retryable, and so are HTTP 5xx and 429; an error that
\* signals HTTP 4xx, not 429, and nothing retryable is not; an error without
\* any signal is retryable; nil is not.
C16_Classifier ==
    classifyPc = "done" =>
        /\ SignalsNetwork => classified
        /\ (Signals("status 5") \/ Signals("status 429")) => classified
        /\ (/\ Signals("status 4")
            /\ ~Signals("status 429")
            /\ ~Signals("status 5")
            /\ ~SignalsNetwork) => ~classified
        /\ (classifyErr # NilErr /\ classifyErr.text = {}) => classified
        /\ classifyErr = NilErr => ~classified

\* "unexpected status 429" has been found retryable.
C16_Witness ==
    /\ classifyPc = "done"
    /\ classifyErr = ErrStatus429
    /\ classified

(***************************************************************************)
(* The backoff delay of WithBackoff (retry.go:49-52) for every             *)
(* representable BaseDelay.                                                *)
(***************************************************************************)
DelayInit ==
    /\ LinksIdle
    /\ TruncateIdle
    /\ SuspendIdle
    /\ RetryIdle
    /\ RunIdle
    /\ ParseIdle
    /\ BatchIdle
    /\ DiscordIdle
    /\ FetchIdle
    /\ ClassifyIdle
    /\ cancelled = FALSE
    /\ delayBase \in 0 .. MaxDuration
    /\ delayAttempt \in 0 .. MaxRetriesBound
    /\ delayPc = "compute"
    /\ delay = 0

\* baseDelay, jitter and delay after a retryable failure of attempt
\* delayAttempt.
ComputeDelay ==
    /\ delayPc = "compute"
    /\ LET config == [MaxRetries |-> delayAttempt + 1, BaseDelay |-> delayBase] IN
        IF JitterPanics(config)
        THEN /\ delayPc' = "panic"
             /\ UNCHANGED delay
        ELSE /\ \E jitter \in Jitters(config) : delay' = BackoffDelay(config, delayAttempt, jitter)
             /\ delayPc' = "done"
    /\ UNCHANGED <<delayBase, delayAttempt, nonDelayVars>>

DelayNext == ComputeDelay

SpecDelay == DelayInit /\ [][DelayNext]_vars

\* C17: the wait after failed attempt k is at least BaseDelay * 2^k and less
\* than BaseDelay * 2^k + BaseDelay.
C17_WaitWithinJitterBand ==
    delayPc = "done" =>
        /\ delay >= delayBase * Pow2(delayAttempt)
        /\ delay < delayBase * Pow2(delayAttempt) + delayBase

\* The same statement for the delays that are representable: it holds as
\* long as BaseDelay * 2^k + BaseDelay - 1 does not exceed the largest
\* Duration.
WaitWithinJitterBandUnlessOverflow ==
    delayBase * Pow2(delayAttempt) + delayBase - 1 <= MaxDuration
        => C17_WaitWithinJitterBand

(***************************************************************************)
(* The suspension points of one run: Runner.Run calls the fetcher, the     *)
(* summarizer and each publisher in turn, and is blocked in a network call *)
(* (fetch request, API request, webhook POST, SMTP send), in the backoff   *)
(* wait of a retry loop, or in the Discord publisher's delay between two   *)
(* batches.  WebPublisher.Publish and StdoutPublisher.Publish do not block.*)
(***************************************************************************)
PublisherKinds == {"discord", "email", "web"}

SuspensionPoints ==
    {"fetch call", "fetch wait", "api call", "api wait",
     "webhook call", "webhook wait", "batch delay", "smtp send"}

\* The first publisher from index i on whose Publish blocks, Len(pubs) + 1 if
\* there is none.
RECURSIVE NextBlocking(_, _)
NextBlocking(pubs, i) ==
    IF i > Len(pubs) THEN Len(pubs) + 1
    ELSE IF pubs[i] \in {"discord", "email"} THEN i
    ELSE NextBlocking(pubs, i + 1)

\* if len(publishErrors) == len(r.publishers) && len(r.publishers) > 0
RunResult(failed, n) == IF failed = n /\ n > 0 THEN "Failed" ELSE "Done"

\* The publish loop of Run from publisher i on, up to the next point where it
\* blocks; Run returns after the last publisher.  t is the tally so far; the
\* publishers passed on the way (web) return nil at once.
EnterPublisher(i, t) ==
    LET j == NextBlocking(spPubs, i)
        called == [k \in 1 .. Len(spPubs) |->
                        IF i <= k /\ k <= j THEN t.published[k] + 1 ELSE t.published[k]]
    IN
    /\ spPub' = j
    /\ spAttempt' = 0
    /\ IF j > Len(spPubs)
       THEN /\ spPc' = "returned"
            /\ spBatchesLeft' = 0
            /\ spTally' = [t EXCEPT !.calls = 0, !.published = called,
                                    !.result = RunResult(t.failed, Len(spPubs))]
       ELSE IF spPubs[j] = "discord"
       THEN /\ spPc' = "webhook call"
            /\ spBatchesLeft' \in 0 .. (MaxBatches - 1)
            /\ spTally' = [t EXCEPT !.calls = 1, !.published = called]
       ELSE /\ spPc' = "smtp send"
            /\ spBatchesLeft' = 0
            /\ spTally' = [t EXCEPT !.calls = 0, !.published = called]

\* The tally after one more publisher has returned an error.
PublisherFailedIn(t) == [t EXCEPT !.failed = @ + 1]

\* Run returns an error before the publish loop.
RunReturnsEarly ==
    /\ spPc' = "returned"
    /\ spTally' = [spTally EXCEPT !.calls = 0, !.result = "Failed"]
    /\ UNCHANGED <<spAttempt, spPub, spBatchesLeft>>

\* A faulty variant of PrivateLoopFails that allows one attempt more.
PrivateLoopFailsLate(maxRetries, waitPc) ==
    IF spAttempt = maxRetries + 1
    THEN RunReturnsEarly
    ELSE /\ spPc' = waitPc
         /\ UNCHANGED <<spAttempt, spPub, spBatchesLeft, spTally>>

\* A private retry loop (fetcher, summarizer) after a failed call: it returns
\* after the last attempt and waits otherwise.
PrivateLoopFails(maxRetries, waitPc) ==
    IF spAttempt = maxRetries
    THEN RunReturnsEarly
    ELSE /\ spPc' = waitPc
         /\ UNCHANGED <<spAttempt, spPub, spBatchesLeft, spTally>>

\* The select of a retry loop: case <-time.After(delay), and the call of the
\* next attempt.
WaitElapsed(waitPc, callPc) ==
    /\ spPc = waitPc
    /\ ~cancelled
    /\ spPc' = callPc
    /\ spAttempt' = spAttempt + 1
    /\ spTally' = [spTally EXCEPT !.calls = @ + 1]
    /\ UNCHANGED <<spPubs, spPub, spBatchesLeft, cancelled, nonSuspendVars>>

SuspendInit ==
    /\ LinksIdle
    /\ TruncateIdle
    /\ RetryIdle
    /\ RunIdle
    /\ ParseIdle
    /\ BatchIdle
    /\ DiscordIdle
    /\ FetchIdle
    /\ ClassifyIdle
    /\ DelayIdle
    /\ cancelled = FALSE
    /\ spPubs \in UNION {[1 .. n -> PublisherKinds] : n \in 0 .. MaxPubs}
    /\ spPc = "start"
    /\ spAttempt = 0
    /\ spPub = 0
    /\ spBatchesLeft = 0
    /\ spTally = NoCalls(spPubs)

\* Run calls Fetch / FetchMultiple, which issues its request; without topics
\* FetchMultiple returns no papers at once and Summarize makes no API call.
SuspendStart ==
    /\ spPc = "start"
    /\ \E n \in 0 .. MaxTopics :
        IF FetchRoute(FetchMethod(n), SubSeq(TopicNames, 1, n)) = "empty"
        THEN EnterPublisher(1, spTally)
        ELSE /\ spPc' = "fetch call"
             /\ spTally' = [spTally EXCEPT !.calls = 1]
             /\ UNCHANGED <<spAttempt, spPub, spBatchesLeft>>
    /\ UNCHANGED <<spPubs, cancelled, nonSuspendVars>>

\* client.Do of the fetcher returns: with papers Run goes on to Summarize,
\* which calls the API unless the list is empty.
FetchCallReturns ==
    /\ spPc = "fetch call"
    /\ \E outcome \in {"papers", "empty", "error"} :
        IF outcome = "error" THEN PrivateLoopFails(FetcherMaxRetries, "fetch wait")
        ELSE IF outcome = "empty" THEN EnterPublisher(1, spTally)
        ELSE /\ spPc' = "api call"
             /\ spAttempt' = 0
             /\ spTally' = [spTally EXCEPT !.calls = 1]
             /\ UNCHANGED <<spPub, spBatchesLeft>>
    /\ UNCHANGED <<spPubs, cancelled, nonSuspendVars>>

\* The request carries ctx (http.NewRequestWithContext): client.Do returns an
\* error once ctx is done.
FetchCallInterrupted ==
    /\ spPc = "fetch call"
    /\ cancelled
    /\ PrivateLoopFails(FetcherMaxRetries, "fetch wait")
    /\ UNCHANGED <<spPubs, cancelled, nonSuspendVars>>

FetchWaitElapsed == WaitElapsed("fetch wait", "fetch call")

\* case <-ctx.Done(): return ctx.Err()
FetchWaitInterrupted ==
    /\ spPc = "fetch wait"
    /\ cancelled
    /\ RunReturnsEarly
    /\ UNCHANGED <<spPubs, cancelled, nonSuspendVars>>

\* client.Do of callAPI returns: a digest starts the publish loop, a parse
\* failure ends the run, an error goes through retryWithBackoff.
ApiCallReturns ==
    /\ spPc = "api call"
    /\ \E outcome \in {"digest", "malformed", "error"} :
        IF outcome = "error" THEN PrivateLoopFails(SummarizerMaxRetries, "api wait")
        ELSE IF outcome = "malformed" THEN RunReturnsEarly
        ELSE EnterPublisher(1, spTally)
    /\ UNCHANGED <<spPubs, cancelled, nonSuspendVars>>

ApiCallInterrupted ==
    /\ spPc = "api call"
    /\ cancelled
    /\ PrivateLoopFails(SummarizerMaxRetries, "api wait")
    /\ UNCHANGED <<spPubs, cancelled, nonSuspendVars>>

ApiWaitElapsed == WaitElapsed("api wait", "api call")

ApiWaitInterrupted ==
    /\ spPc = "api wait"
    /\ cancelled
    /\ RunReturnsEarly
    /\ UNCHANGED <<spPubs, cancelled, nonSuspendVars>>

\* sendWebhook returned err inside retry.WithBackoff: the next batch after a
\* success, the next publisher after a failure of the batch, a wait otherwise.
AfterWebhook(err) ==
    IF err = NilErr
    THEN IF spBatchesLeft > 0
         THEN /\ spPc' = "batch delay"
              /\ UNCHANGED <<spAttempt, spPub, spBatchesLeft, spTally>>
         ELSE EnterPublisher(spPub + 1, spTally)
    ELSE IF AttemptBranch(NewDiscordRetryConfig, spAttempt, err) = "backoff"
    THEN /\ spPc' = "webhook wait"
         /\ UNCHANGED <<spAttempt, spPub, spBatchesLeft, spTally>>
    ELSE EnterPublisher(spPub + 1, PublisherFailedIn(spTally))

WebhookCallReturns ==
    /\ spPc = "webhook call"
    /\ \E err \in SendOutcomes : AfterWebhook(err)
    /\ UNCHANGED <<spPubs, cancelled, nonSuspendVars>>

WebhookCallInterrupted ==
    /\ spPc = "webhook call"
    /\ cancelled
    /\ AfterWebhook(ErrCanceled)
    /\ UNCHANGED <<spPubs, cancelled, nonSuspendVars>>

WebhookWaitElapsed == WaitElapsed("webhook wait", "webhook call")

\* WithBackoff returns ctx.Err(), Publish returns it, Run calls the next
\* publisher.
WebhookWaitInterrupted ==
    /\ spPc = "webhook wait"
    /\ cancelled
    /\ EnterPublisher(spPub + 1, PublisherFailedIn(spTally))
    /\ UNCHANGED <<spPubs, cancelled, nonSuspendVars>>

\* case <-time.After(500 * time.Millisecond): the next batch is sent.
InterBatchDelayElapsed ==
    /\ spPc = "batch delay"
    /\ ~cancelled
    /\ spPc' = "webhook call"
    /\ spAttempt' = 0
    /\ spBatchesLeft' = spBatchesLeft - 1
    /\ spTally' = [spTally EXCEPT !.calls = 1]
    /\ UNCHANGED <<spPubs, spPub, cancelled, nonSuspendVars>>

\* case <-ctx.Done(): return ctx.Err()
InterBatchDelayInterrupted ==
    /\ spPc = "batch delay"
    /\ cancelled
    /\ EnterPublisher(spPub + 1, PublisherFailedIn(spTally))
    /\ UNCHANGED <<spPubs, cancelled, nonSuspendVars>>

\* smtp.SendMail returns, with or without an error.  EmailPublisher.Publish
\* discards its ctx, and SendMail takes none: there is no step for ctx.Done().
SmtpSendReturns ==
    /\ spPc = "smtp send"
    /\ \E t \in {spTally, PublisherFailedIn(spTally)} : EnterPublisher(spPub + 1, t)
    /\ UNCHANGED <<spPubs, cancelled, nonSuspendVars>>

\* The context of the run is cancelled.
SuspendCancel ==
    /\ spPc \in SuspensionPoints
    /\ ~cancelled
    /\ cancelled' = TRUE
    /\ UNCHANGED <<suspendVars, nonSuspendVars>>

\* The steps the code takes because ctx is done.
Interrupted ==
    \/ FetchCallInterrupted
    \/ FetchWaitInterrupted
    \/ ApiCallInterrupted
    \/ ApiWaitInterrupted
    \/ WebhookCallInterrupted
    \/ WebhookWaitInterrupted
    \/ InterBatchDelayInterrupted

SuspendNext ==
    \/ SuspendStart
    \/ FetchCallReturns
    \/ FetchWaitElapsed
    \/ ApiCallReturns
    \/ ApiWaitElapsed
    \/ WebhookCallReturns
    \/ WebhookWaitElapsed
    \/ InterBatchDelayElapsed
    \/ SmtpSendReturns
    \/ SuspendCancel
    \/ Interrupted

SpecSuspend == SuspendInit /\ [][SuspendNext]_vars

\* Every step of the run itself: a call returns, a timer fires, or the code
\* reacts to ctx.Done().
Returns ==
    \/ SuspendStart
    \/ FetchCallReturns
    \/ FetchWaitElapsed
    \/ ApiCallReturns
    \/ ApiWaitElapsed
    \/ WebhookCallReturns
    \/ WebhookWaitElapsed
    \/ InterBatchDelayElapsed
    \/ SmtpSendReturns
    \/ Interrupted

\* Every call of a collaborator returns and every timer fires.
SpecSuspendReturns == SpecSuspend /\ WF_vars(Returns)

\* C39: a run makes at most 4 requests in its fetch, at most 4 calls of the
\* API, at most 4 POSTs of any webhook batch, and calls no publisher twice;
\* when every call returns, Run returns nil or an error, having called every
\* publisher once unless it failed before the publish loop.
C39_RunTerminatesWithinCaps ==
    /\ [](/\ spPc \in {"fetch call", "api call", "webhook call"} => spTally.calls \in 1 .. 4
          /\ spPc \in {"fetch wait", "api wait", "webhook wait"} => spTally.calls \in 1 .. 3
          /\ \A i \in 1 .. Len(spPubs) : spTally.published[i] <= 1
          /\ spPc = "returned" =>
                /\ spTally.result \in {"Done", "Failed"}
                /\ \/ \A i \in 1 .. Len(spPubs) : spTally.published[i] = 1
                   \/ /\ spTally.result = "Failed"
                      /\ \A i \in 1 .. Len(spPubs) : spTally.published[i] = 0)
    /\ <>(spPc = "returned")

\* The last of several publishers posts a webhook batch for the fourth time
\* after an earlier publisher has failed.
C39_Witness ==
    /\ spPc = "webhook call"
    /\ spTally.calls = 4
    /\ Len(spPubs) >= 2
    /\ spPub = Len(spPubs)
    /\ spTally.failed >= 1

\* The peers and the timers take as long as they like; what is sure to happen
\* is what the code does once ctx is done.
SpecSuspendLive == SpecSuspend /\ WF_vars(Interrupted)

\* C25: once the context of the run is cancelled, the run does not stay at
\* any suspension point: whichever point it is blocked at, it leaves it.
C25_CancelInterruptsEverySuspension ==
    \A p \in SuspensionPoints : (cancelled /\ spPc = p) ~> (spPc # p)

\* The same for every suspension point but the SMTP send.
CancelInterruptsAllButSmtpSend ==
    \A p \in SuspensionPoints \ {"smtp send"} : (cancelled /\ spPc = p) ~> (spPc # p)

\* After the cancellation the run returns or is blocked in an SMTP send.
CancelledRunReturnsUnlessSmtpSend ==
    cancelled ~> (spPc \in {"returned", "smtp send"})

\* The run is blocked in smtp.SendMail with its context cancelled.
SmtpSendOutlivesCancel ==
    /\ cancelled
    /\ spPc = "smtp send"

(***************************************************************************)
(* truncate, applied to every string of at most MaxText bytes over         *)
(* TextBytes that holds at most MaxMarks sentence-ending marks, with every *)
(* max of 1 .. MaxCap.  The callers pass the constants 256, 4096, 1024 and *)
(* 2048.                                                                   *)
(***************************************************************************)
TextBytes == {"a", ".", "!", "?"}

Strings ==
    {s \in UNION {[1 .. n -> TextBytes] : n \in 0 .. MaxText} :
        Cardinality({i \in 1 .. Len(s) : s[i] # "a"}) <= MaxMarks}

TruncateInit ==
    /\ LinksIdle
    /\ SuspendIdle
    /\ RetryIdle
    /\ RunIdle
    /\ ParseIdle
    /\ BatchIdle
    /\ DiscordIdle
    /\ FetchIdle
    /\ ClassifyIdle
    /\ DelayIdle
    /\ cancelled = FALSE
    /\ trS \in Strings
    /\ trMax \in 1 .. MaxCap
    /\ trPc = "call"
    /\ trOut = <<>>

Truncate ==
    /\ trPc = "call"
    /\ trOut' = truncate(trS, trMax)
    /\ trPc' = "done"
    /\ UNCHANGED <<trS, trMax, nonTruncateVars>>

TruncateNext == Truncate

SpecTruncate == TruncateInit /\ [][TruncateNext]_vars

\* The positions (from 1) of the sentence-ending marks among the first
\* trMax - 1 bytes of trS.
MarksInCut == {i \in 1 .. (trMax - 1) : i <= Len(trS) /\ trS[i] \in {".", "!", "?"}}

LastMark == CHOOSE i \in MarksInCut : \A j \in MarksInCut : j <= i

\* C31: truncate(s, max) returns s when s fits within max; otherwise it cuts
\* s just after the last sentence-ending mark among the first max - 1 bytes
\* when that mark's offset (from 0) is greater than max / 2, and else returns
\* the first max - 1 bytes followed by the ellipsis.
C31_TruncateContract ==
    trPc = "done" =>
        IF Len(trS) <= trMax THEN trOut = trS
        ELSE IF MarksInCut # {} /\ LastMark - 1 > trMax \div 2
             THEN trOut = SubSeq(trS, 1, LastMark)
             ELSE trOut = SubSeq(trS, 1, trMax - 1) \o <<"e2", "80", "a6">>

\* A string too long for max was cut after a sentence-ending mark, short of
\* the first max - 1 bytes.
C31_Witness ==
    /\ trPc = "done"
    /\ Len(trS) > trMax
    /\ Len(trOut) < trMax - 1
    /\ trOut = SubSeq(trS, 1, Len(trOut))
    /\ trOut[Len(trOut)] \in {".", "!", "?"}

(***************************************************************************)
(* The canonical URL of a feed entry (fetchInternal and                    *)
(* fetchMultipleInternal hold the same loop), for every list of at most    *)
(* MaxLinks links.  The link at position i has Href i; 0 is the empty      *)
(* string.                                                                 *)
(***************************************************************************)
LinkRels == {"alternate", "related"}
LinkTypes == {"text/html", "application/pdf"}

EntryLinks ==
    UNION {{[i \in 1 .. n |-> [Href |-> i, Type |-> tr[i][1], Rel |-> tr[i][2]]] :
                tr \in [1 .. n -> LinkTypes \X LinkRels]} : n \in 0 .. MaxLinks}

\* for _, link := range entry.Links {
\*     if link.Rel == "alternate" || (link.Type == "text/html" && paperURL == "") {
\*         paperURL = link.Href } }
RECURSIVE LinkLoop(_, _, _)
LinkLoop(ls, k, url) ==
    IF k > Len(ls) THEN url
    ELSE IF ls[k].Rel = "alternate" \/ (ls[k].Type = "text/html" /\ url = 0)
         THEN LinkLoop(ls, k + 1, ls[k].Href)
         ELSE LinkLoop(ls, k + 1, url)

\* if paperURL == "" && len(entry.Links) > 0 { paperURL = entry.Links[0].Href }
PaperURL(ls) ==
    LET url == LinkLoop(ls, 1, 0)
    IN  IF url = 0 /\ Len(ls) > 0 THEN ls[1].Href ELSE url

LinksInit ==
    /\ TruncateIdle
    /\ SuspendIdle
    /\ RetryIdle
    /\ RunIdle
    /\ ParseIdle
    /\ BatchIdle
    /\ DiscordIdle
    /\ FetchIdle
    /\ ClassifyIdle
    /\ DelayIdle
    /\ cancelled = FALSE
    /\ links \in EntryLinks
    /\ linkPc = "call"
    /\ paperURL = 0

SelectURL ==
    /\ linkPc = "call"
    /\ paperURL' = PaperURL(links)
    /\ linkPc' = "done"
    /\ UNCHANGED <<links, nonLinksVars>>

LinksNext == SelectURL

SpecLinks == LinksInit /\ [][LinksNext]_vars

Alternates == {i \in 1 .. Len(links) : links[i].Rel = "alternate"}

HTMLLinks == {i \in 1 .. Len(links) : links[i].Type = "text/html"}

First(S) == CHOOSE i \in S : \A j \in S : i <= j

\* C34: the canonical URL is the first link marked as alternate, without
\* one the first link present, and empty only for an entry without links.
C34_FirstAlternateElseFirstLink ==
    linkPc = "done" =>
        paperURL = IF Alternates # {} THEN links[First(Alternates)].Href
                   ELSE IF Len(links) > 0 THEN links[1].Href
                   ELSE 0

\* What the loop selects: the last link marked as alternate; without one the
\* first link of type text/html; without either the first link present.
LastAlternateElseFirstHTML ==
    linkPc = "done" =>
        paperURL = IF Alternates # {}
                   THEN links[CHOOSE i \in Alternates : \A j \in Alternates : j <= i].Href
                   ELSE IF HTMLLinks # {} THEN links[First(HTMLLinks)].Href
                   ELSE IF Len(links) > 0 THEN links[1].Href
                   ELSE 0

\* Two links are marked as alternate and the second was selected.
LaterAlternateSelected ==
    /\ linkPc = "done"
    /\ Len(links) = 2
    /\ links[1].Rel = "alternate"
    /\ links[2].Rel = "alternate"
    /\ paperURL = links[2].Href

=========================================================================
